---- MODULE Spec2Model ----
(***************************************************************************)
(* Credential lifecycle of M26AuctionPipeline: TokenManager                *)
(* (companion_collect/auth/token_manager.py) and SessionManager            *)
(* (companion_collect/auth/session_manager.py), run by asyncio tasks.      *)
(*                                                                         *)
(* Scheduling: asyncio is cooperative.  `running` is the task the event    *)
(* loop is executing; it keeps the loop until it reaches a suspension      *)
(* point (a contended lock, asyncio.sleep, an HTTP round trip) or returns. *)
(* An action is one scheduling of one task: the task is entered or        *)
(* resumed and runs, statement by statement, to its next suspension point  *)
(* or to its return.  The statements are the operators on the state record *)
(* `s`; Run chains them.                                                   *)
(***************************************************************************)
EXTENDS Integers, Sequences, FiniteSets, TLC

\* ---------------------------------------------------------------- bounds
NumTasks == 2
MaxTicks == 2
MaxTickets == 3
MaxJwts == 1
MaxFails == 3

\* ------------------------------------------------------ program constants
GENERATION_COOLDOWN_SECONDS == 10
MAX_BACKUP_TICKETS == 2
REFRESH_SAFETY_MARGIN_SECONDS == 300
UNHEALTHY_FAILED_COUNT == 3

\* ---------------------------------------------------- environment choices
TickSeconds == 5
NumThreads == 2
MaxInitial == 3
MaxBundles == 2
MaxNew == 2
MaxPool == 4
MaxCalls == 4
MaxVersions == 2
MaxGenerated == 3
MaxPayloads == 3
MaxRecords == 2
MaxBatches == 2
MaxTime == MaxTicks * TickSeconds
ShortLifetime == REFRESH_SAFETY_MARGIN_SECONDS + TickSeconds
LongLifetime == 3600
TokenLifetimes == {REFRESH_SAFETY_MARGIN_SECONDS, ShortLifetime, LongLifetime}
InitialExpiries == {REFRESH_SAFETY_MARGIN_SECONDS, LongLifetime}

Tasks == 1..NumTasks
NoTask == 0
NoTime == -1
NoJwt == -1

VARIABLES
  now,                  \* datetime.now(timezone.utc), in seconds
  running,              \* the task the event loop is executing, or NoTask
  pc,                   \* per task: position in its coroutine
  op,                   \* per task: the public method it is (or was last) in
  arg,                  \* per task: mark_failed's ticket / promote_primary
  needed,               \* per task: ensure_backups' `needed`
  idx,                  \* per task: ensure_backups' loop index i
  wake,                 \* per task: deadline of its asyncio.sleep
  ticket_data,          \* per task: the SessionTicket _generate_ticket returned
  jwt_token,            \* per task: _generate_ticket's `jwt_token`, or NoJwt
  ret,                  \* per task: outcome of its last call
  primary_ticket,       \* SessionManager._primary_ticket
  backup_tickets,       \* SessionManager._backup_tickets
  last_generation_time, \* SessionManager._last_generation_time
  max_backups,          \* SessionManager.max_backups
  generation_lock,      \* SessionManager._generation_lock
  token_data,           \* TokenManager._token_data
  token_file,           \* content of TokenManager._storage_path
  storage_path,         \* TRUE iff TokenManager._storage_path is set
  refresh_lock,         \* TokenManager._refresh_lock
  next_ticket,          \* next session key the login endpoint hands out
  next_jwt,             \* next access token the token endpoint hands out
  jwt_exp,              \* per access token: the exp claim it carries
  opLogins,             \* history, per task: login requests of its current call
  opTokenCalls,         \* history, per task: token requests of its current call
  opTokenErr,           \* history, per task: its token request failed
  opWaited,             \* history, per task: it queued on the refresh lock
  shared,               \* history, per task: the ticket another
                        \* get_session_ticket minted while it waited
  seen_backups,         \* history, per task: the backups its promotion found
  failed_primaries,     \* history: primaries that mark_failed made unhealthy
  evicted_backups,      \* history: backups that mark_failed removed
  pool,                 \* AuthPoolManager._pool
  index,                \* AuthPoolManager._index
  pool_file,            \* content of AuthPoolManager._pool_path
  last_call,            \* history: the last AuthPoolManager call and its outcome
  served,               \* history: pool positions get_next_auth returned
  run,                  \* history: those returned since the pool last grew
  t_pc,                 \* per thread: position in get_next_auth
  t_auth,               \* per thread: pool position of its `auth`
  t_index,              \* per thread: the self._index it loaded
  index0,               \* history: _index when the threads' calls began
  disk,                 \* per file: the text a reader finds in it
  w_pc,                 \* per file: position of its writer in `with open(..)`
  w_ver,                \* per file: the version its writer wrote last
  r_seen,               \* per file: the text the reader last read
  auth_call,            \* history: the last compute_message_auth or
                        \* delta_refresh call, its arguments and outcome
  decoded,              \* history: outcome of the last decode_auth_data
  xored,                \* history: a buffer, and _process_data applied to it
                        \* once and twice
  request_counter,      \* AuctionCollector._request_counter
  request_ids,          \* history: requestIds in the collector's bundles
  p_pc,                 \* position of AuctionPipeline.run
  max_batches,          \* run's max_batches, NoLimit for None
  batches,              \* run's `batches`
  yielded,              \* history: per payload the stream yielded, the
                        \* number of its records the normalizer accepts
  deliveries,           \* history, per sink: the payloads whose record
                        \* list it received, one entry per call
  collector_stopped     \* AuctionCollector._stopped

taskVars == <<pc, op, arg, needed, idx, wake, ticket_data, jwt_token, ret>>
poolVars == <<primary_ticket, backup_tickets, last_generation_time, max_backups>>
tokenVars == <<token_data, token_file, storage_path>>
envVars == <<next_ticket, next_jwt, jwt_exp>>
callVars == <<opLogins, opTokenCalls, opTokenErr, opWaited, shared,
             seen_backups>>
histVars == <<callVars, failed_primaries, evicted_backups>>
sessionVars == <<now, running, taskVars, poolVars, generation_lock, tokenVars,
          refresh_lock, envVars, histVars>>
rotorVars == <<pool, index, pool_file, last_call, served, run>>
threadVars == <<t_pc, t_auth, t_index, index0>>
fileVars == <<disk, w_pc, w_ver, r_seen>>
cipherVars == <<auth_call, decoded, xored, request_counter, request_ids>>
pipeVars == <<p_pc, max_batches, batches, yielded, deliveries,
             collector_stopped>>
extraVars == <<fileVars, cipherVars, pipeVars>>
vars == <<sessionVars, rotorVars, threadVars, extraVars>>

\* ------------------------------------------------------------ data types
NoTicket == [ticket |-> 0, failed_count |-> 0]
NoFile == [jwt_token |-> -1, refresh_token |-> -1,
           expires_at |-> <<"iso", NoTime>>, issued_at |-> <<"iso", NoTime>>]
NoRet == [kind |-> "none", val |-> 0, failed_count |-> 0, expires_at |-> NoTime]
FreeLock == [locked |-> NoTask, waiters |-> <<>>]

SessionTicket(key) == [ticket |-> key, failed_count |-> 0]

isoformat(t) == <<"iso", t>>
fromisoformat(s) == s[2]

TokenData(jwt, refresh, expires, issued) ==
  [jwt_token |-> jwt, refresh_token |-> refresh,
   expires_at |-> isoformat(expires), issued_at |-> isoformat(issued)]

\* mutant: the access token is written under the key the token endpoint uses
asdict_access_token(td) ==
  [access_token |-> td.jwt_token, refresh_token |-> td.refresh_token,
   expires_at |-> td.expires_at, issued_at |-> td.issued_at]

\* dataclasses.asdict of a TokenData: the JSON object _save_to_storage dumps
asdict(td) ==
  [jwt_token |-> td.jwt_token, refresh_token |-> td.refresh_token,
   expires_at |-> td.expires_at, issued_at |-> td.issued_at]

LoadError(e) == [error |-> e]

\* TokenManager.from_file at time t on a file holding the JSON object `data`:
\* the TokenData of the manager it returns
from_file(data, t) ==
  IF data = NoFile THEN LoadError("FileNotFoundError")
  ELSE IF "access_token" \in DOMAIN data
    THEN TokenData(data.access_token,
                   IF "refresh_token" \in DOMAIN data
                     THEN data.refresh_token ELSE 0,
                   t + (IF "expires_in" \in DOMAIN data
                          THEN data.expires_in ELSE LongLifetime),
                   t)
  ELSE IF DOMAIN data = {"jwt_token", "refresh_token", "expires_at",
                         "issued_at"}
    THEN [jwt_token |-> data.jwt_token, refresh_token |-> data.refresh_token,
          expires_at |-> data.expires_at, issued_at |-> data.issued_at]
  ELSE LoadError("TypeError")

\* mutant: the health test is off by one
is_healthy_off_by_one(t) == t.failed_count <= UNHEALTHY_FAILED_COUNT

is_healthy(t) == t.failed_count < UNHEALTHY_FAILED_COUNT

\* mutant: expiry without the safety margin
is_expired_no_margin(td, t) == t >= fromisoformat(td.expires_at)

is_expired(td, t) ==
  t >= fromisoformat(td.expires_at) - REFRESH_SAFETY_MARGIN_SECONDS

\* asyncio.Lock: acquire takes a free lock at once, otherwise queues the
\* task; release hands the lock to the longest waiting task.
Acquire(lock, p) ==
  IF lock.locked = NoTask /\ lock.waiters = <<>>
    THEN [locked |-> p, waiters |-> <<>>]
    ELSE [locked |-> lock.locked, waiters |-> Append(lock.waiters, p)]

\* mutant: the lock stays with its holder
Release_never(lock) == lock

Release(lock) ==
  IF lock.waiters = <<>>
    THEN FreeLock
    ELSE [locked |-> Head(lock.waiters), waiters |-> Tail(lock.waiters)]

\* mutant: the newest healthy backup instead of the oldest
RECURSIVE LastHealthy(_, _)
LastHealthy(seq, i) ==
  IF i > Len(seq) THEN 0
  ELSE LET later == LastHealthy(seq, i + 1) IN
         IF later # 0 THEN later
         ELSE IF seq[i].failed_count < UNHEALTHY_FAILED_COUNT THEN i
         ELSE 0

\* index of the first healthy backup, 0 if there is none
RECURSIVE FirstHealthy(_, _)
FirstHealthy(seq, i) ==
  IF i > Len(seq) THEN 0
  ELSE IF is_healthy(seq[i]) THEN i
  ELSE FirstHealthy(seq, i + 1)

\* index of the first backup whose ticket string is t, 0 if there is none
RECURSIVE FirstMatch(_, _, _)
FirstMatch(seq, t, i) ==
  IF i > Len(seq) THEN 0
  ELSE IF seq[i].ticket = t THEN i
  ELSE FirstMatch(seq, t, i + 1)

\* index of the first element equal to e (list.remove), 0 if there is none
RECURSIVE FirstEqual(_, _, _)
FirstEqual(seq, e, i) ==
  IF i > Len(seq) THEN 0
  ELSE IF seq[i] = e THEN i
  ELSE FirstEqual(seq, e, i + 1)

RemoveAt(seq, i) ==
  IF i = 0 THEN seq
  ELSE SubSeq(seq, 1, i - 1) \o SubSeq(seq, i + 1, Len(seq))

\* Python's seq[-k:]; seq[-0:] is the whole list
LastSlice(seq, k) ==
  IF k = 0 \/ k >= Len(seq) THEN seq
  ELSE SubSeq(seq, Len(seq) - k + 1, Len(seq))

OkTicket(t) == [kind |-> "ok", val |-> t.ticket,
                failed_count |-> t.failed_count, expires_at |-> NoTime]
OkJwt(td) == [kind |-> "ok", val |-> td.jwt_token, failed_count |-> 0,
              expires_at |-> fromisoformat(td.expires_at)]
Raise == [kind |-> "raise", val |-> 0, failed_count |-> 0, expires_at |-> NoTime]
Done == [kind |-> "done", val |-> 0, failed_count |-> 0, expires_at |-> NoTime]

\* ------------------------------------------------- the state as a record
S ==
  [now |-> now, running |-> running, pc |-> pc, op |-> op, arg |-> arg,
   needed |-> needed, idx |-> idx, wake |-> wake,
   ticket_data |-> ticket_data, jwt_token |-> jwt_token, ret |-> ret,
   primary_ticket |-> primary_ticket, backup_tickets |-> backup_tickets,
   last_generation_time |-> last_generation_time,
   max_backups |-> max_backups, generation_lock |-> generation_lock,
   token_data |-> token_data, token_file |-> token_file,
   storage_path |-> storage_path, refresh_lock |-> refresh_lock,
   next_ticket |-> next_ticket, next_jwt |-> next_jwt, jwt_exp |-> jwt_exp,
   opLogins |-> opLogins, opTokenCalls |-> opTokenCalls,
   opTokenErr |-> opTokenErr, opWaited |-> opWaited, shared |-> shared,
   seen_backups |-> seen_backups, failed_primaries |-> failed_primaries,
   evicted_backups |-> evicted_backups]

Install(s0) == \E s \in {s0} :
  /\ now' = s.now
  /\ running' = s.running
  /\ pc' = s.pc
  /\ op' = s.op
  /\ arg' = s.arg
  /\ needed' = s.needed
  /\ idx' = s.idx
  /\ wake' = s.wake
  /\ ticket_data' = s.ticket_data
  /\ jwt_token' = s.jwt_token
  /\ ret' = s.ret
  /\ primary_ticket' = s.primary_ticket
  /\ backup_tickets' = s.backup_tickets
  /\ last_generation_time' = s.last_generation_time
  /\ max_backups' = s.max_backups
  /\ generation_lock' = s.generation_lock
  /\ token_data' = s.token_data
  /\ token_file' = s.token_file
  /\ storage_path' = s.storage_path
  /\ refresh_lock' = s.refresh_lock
  /\ next_ticket' = s.next_ticket
  /\ next_jwt' = s.next_jwt
  /\ jwt_exp' = s.jwt_exp
  /\ opLogins' = s.opLogins
  /\ opTokenCalls' = s.opTokenCalls
  /\ opTokenErr' = s.opTokenErr
  /\ opWaited' = s.opWaited
  /\ shared' = s.shared
  /\ seen_backups' = s.seen_backups
  /\ failed_primaries' = s.failed_primaries
  /\ evicted_backups' = s.evicted_backups
  /\ UNCHANGED <<rotorVars, threadVars, extraVars>>

\* ------------------------------------------------------ control transfer
\* task p goes on at `label` without giving up the event loop
Goto(s, p, label) == [s EXCEPT !.pc[p] = label]

\* task p is suspended at `label`
Suspend(s, p, label) == [s EXCEPT !.pc[p] = label, !.running = NoTask]

\* the event loop enters task p's call of a public method
Enter(s, p, name, a) ==
  [s EXCEPT !.running = p, !.op[p] = name, !.arg[p] = a, !.pc[p] = name]

\* the event loop resumes task p at `label`
Resume(s, p, label) == [s EXCEPT !.running = p, !.pc[p] = label]

\* the coroutine ends with outcome r and its frame is dropped; the caller
\* goes on at once, without a suspension point in between
Return(s, p, r) ==
  [s EXCEPT !.pc[p] = "returned", !.ret[p] = r, !.needed[p] = 0,
            !.idx[p] = 0, !.wake[p] = 0, !.ticket_data[p] = NoTicket,
            !.jwt_token[p] = NoJwt]

IsTokenCaller(s, p) == s.op[p] \in {"get_valid_jwt", "refresh_jwt"}

\* the methods that run _promote_or_generate_primary
InPromote(s, p) == s.op[p] \in {"get_session_ticket", "mark_failed"}

\* where _promote_or_generate_primary returns to
AfterPromote(s, p) ==
  IF s.op[p] = "get_session_ticket" THEN "get_return" ELSE "mark_failed_backups"

\* where `async with self._generation_lock` goes on (lines 167, 437)
AfterGenerationLock(s, p) ==
  IF InPromote(s, p) THEN "promote_locked" ELSE "cooldown"

\* ------------------------------------------------------- TokenManager
\* get_valid_jwt, lines 183-184: refresh only when within the safety margin
get_valid_jwt_check(s, p) ==
  IF is_expired(s.token_data, s.now)
    THEN Goto(s, p, "refresh_jwt")
    ELSE Goto(s, p, "jwt_return")

\* refresh_jwt, line 201: `async with self._refresh_lock`; a task that finds
\* the lock taken queues up and is suspended
refresh_jwt_lock(s, p) ==
  LET lock == Acquire(s.refresh_lock, p) IN
    IF lock.locked = p
      THEN Goto([s EXCEPT !.refresh_lock = lock], p, "refresh_locked")
      ELSE Suspend([s EXCEPT !.refresh_lock = lock, !.opWaited[p] = TRUE],
                   p, "refresh_wait")

\* mutant: no second look at the token under the lock
refresh_jwt_no_double_check(s, p) ==
  Suspend([s EXCEPT !.opTokenCalls[p] = @ + 1], p, "token_post")

\* refresh_jwt, lines 202-221: double check, then POST to the token endpoint
refresh_jwt_double_check(s, p) ==
  IF ~is_expired(s.token_data, s.now)
    THEN Goto([s EXCEPT !.refresh_lock = Release(@)], p, "jwt_return")
    ELSE Suspend([s EXCEPT !.opTokenCalls[p] = @ + 1], p, "token_post")

\* _save_to_storage, lines 253-261: the file holds asdict(token_data)
save_to_storage(s) ==
  IF s.storage_path THEN [s EXCEPT !.token_file = asdict(s.token_data)] ELSE s

\* refresh_jwt, lines 223-251: a 2xx response carrying a decodable token
\* whose exp claim is now + lifetime, with or without a new refresh token
refresh_jwt_store(s, p, lifetime, with_refresh) ==
  LET new == TokenData(s.next_jwt,
                       IF with_refresh THEN s.next_jwt
                       ELSE s.token_data.refresh_token,
                       s.now + lifetime, s.now)
      stored == save_to_storage([s EXCEPT !.token_data = new])
  IN Goto([stored EXCEPT !.jwt_exp[s.next_jwt] = s.now + lifetime,
                         !.next_jwt = @ + 1,
                         !.refresh_lock = Release(@)], p, "jwt_return")

\* mutant: the failed request is sent again
refresh_jwt_retry(s, p) ==
  Suspend([s EXCEPT !.opTokenCalls[p] = @ + 1, !.opTokenErr[p] = TRUE],
          p, "token_post")

\* refresh_jwt, lines 208-231: network error, non-2xx status, or a body that
\* cannot be decoded; the exception leaves through both `async with`
refresh_jwt_raise(s, p) ==
  Goto([s EXCEPT !.refresh_lock = Release(@), !.opTokenErr[p] = TRUE],
       p, "jwt_raise")

\* get_valid_jwt line 186 / refresh_jwt lines 204 and 251: the token goes to
\* the caller, which is _generate_ticket (line 196) or the orchestrator
jwt_return(s, p) ==
  IF IsTokenCaller(s, p)
    THEN Return(s, p, OkJwt(s.token_data))
    ELSE Goto([s EXCEPT !.jwt_token[p] = s.token_data.jwt_token], p, "login")

\* mutant: _generate_ticket goes on with the cached token after the error
jwt_raise_swallowed(s, p) ==
  IF IsTokenCaller(s, p)
    THEN Return(s, p, Raise)
    ELSE Goto([s EXCEPT !.jwt_token[p] = s.token_data.jwt_token], p, "login")

\* the refresh error propagates to the caller
jwt_raise(s, p) ==
  IF IsTokenCaller(s, p)
    THEN Return(s, p, Raise)
    ELSE Goto(s, p, "generate_raise")

\* ----------------------------------------------------- SessionManager
\* mutant: only a missing primary is replaced
get_session_ticket_unchecked(s, p) ==
  IF s.primary_ticket = NoTicket
    THEN Goto(s, p, "generation_lock")
    ELSE Goto(s, p, "get_return")

\* get_session_ticket, lines 112-113
get_session_ticket_check(s, p) ==
  IF s.primary_ticket = NoTicket \/ ~is_healthy(s.primary_ticket)
    THEN Goto(s, p, "generation_lock")
    ELSE Goto(s, p, "get_return")

\* get_session_ticket, lines 115-118
get_session_ticket_return(s, p) ==
  IF s.primary_ticket = NoTicket
    THEN Return(s, p, Raise)
    ELSE Return(s, p, OkTicket(s.primary_ticket))

\* mutant: the primary is marked whatever ticket is reported
mark_failed_primary_any(s, p) ==
  IF s.primary_ticket # NoTicket
    THEN LET marked == [s.primary_ticket EXCEPT !.failed_count = @ + 1]
             s1 == [s EXCEPT !.primary_ticket = marked,
                             !.failed_primaries =
                                IF marked.failed_count >= UNHEALTHY_FAILED_COUNT
                                  THEN @ \cup {marked.ticket} ELSE @]
         IN IF ~is_healthy(marked)
              THEN Goto(s1, p, "generation_lock")
              ELSE Goto(s1, p, "mark_failed_backups")
    ELSE Goto(s, p, "mark_failed_backups")

\* mark_failed, lines 123-129: the primary's counter
mark_failed_primary(s, p) ==
  IF s.primary_ticket # NoTicket /\ s.primary_ticket.ticket = s.arg[p]
    THEN LET marked == [s.primary_ticket EXCEPT !.failed_count = @ + 1]
             s1 == [s EXCEPT !.primary_ticket = marked,
                             !.failed_primaries =
                                IF marked.failed_count >= UNHEALTHY_FAILED_COUNT
                                  THEN @ \cup {marked.ticket} ELSE @]
         IN IF ~is_healthy(marked)
              THEN Goto(s1, p, "generation_lock")
              ELSE Goto(s1, p, "mark_failed_backups")
    ELSE Goto(s, p, "mark_failed_backups")

\* the ticket strings held by a list of tickets
TicketsOf(seq) == {seq[i].ticket : i \in 1..Len(seq)}

\* mutant: an unhealthy backup stays in the list
MarkBackup_keep(seq, t) ==
  LET j == FirstMatch(seq, t, 1) IN
    IF j = 0 THEN seq ELSE [seq EXCEPT ![j].failed_count = @ + 1]

\* mark_failed, lines 132-139: the first backup carrying the ticket string
MarkBackup(seq, t) ==
  LET j == FirstMatch(seq, t, 1) IN
    IF j = 0 THEN seq
    ELSE LET b == [seq[j] EXCEPT !.failed_count = @ + 1]
             marked == [seq EXCEPT ![j] = b]
         IN IF ~is_healthy(b)
              THEN RemoveAt(marked, FirstEqual(marked, b, 1))
              ELSE marked

mark_failed_backups(s, p) ==
  LET left == MarkBackup(s.backup_tickets, s.arg[p]) IN
    Return([s EXCEPT !.backup_tickets = left,
                     !.evicted_backups =
                        @ \cup (TicketsOf(s.backup_tickets) \ TicketsOf(left))],
           p, Done)

\* ensure_backups, lines 143-148
ensure_backups_needed(s, p) ==
  LET n == s.max_backups - Len(s.backup_tickets) IN
    IF n <= 0
      THEN Return(s, p, Done)
      ELSE Goto([s EXCEPT !.needed[p] = n, !.idx[p] = 0], p, "cooldown")

\* ensure_backups, lines 150-158: append, then the next round of the loop
ensure_backups_append(s, p) ==
  LET s1 == [s EXCEPT !.backup_tickets = Append(@, s.ticket_data[p])] IN
    IF s.idx[p] + 1 < s.needed[p]
      THEN Goto([s1 EXCEPT !.idx[p] = @ + 1], p, "cooldown")
      ELSE Return(s1, p, Done)

\* mutant: the loop goes on to its next round after an error
ensure_backups_continue(s, p) ==
  IF s.idx[p] + 1 < s.needed[p]
    THEN Goto([s EXCEPT !.idx[p] = @ + 1], p, "cooldown")
    ELSE Return(s, p, Done)

\* ensure_backups, lines 160-162: any error ends the loop
ensure_backups_break(s, p) == Return(s, p, Done)

\* `async with self._generation_lock`, lines 166 and 436
generation_lock_enter(s, p) ==
  LET lock == Acquire(s.generation_lock, p) IN
    IF lock.locked = p
      THEN Goto([s EXCEPT !.generation_lock = lock], p,
                AfterGenerationLock(s, p))
      ELSE Suspend([s EXCEPT !.generation_lock = lock], p, "generation_wait")

\* mutant: the promoted backup stays in the backup list
promote_backup_keep(s, p) ==
  LET j == FirstHealthy(s.backup_tickets, 1)
      s1 == [s EXCEPT !.seen_backups[p] =
               IF s.op[p] = "mark_failed" THEN s.backup_tickets ELSE @]
  IN IF j > 0
       THEN Goto([s1 EXCEPT
                    !.primary_ticket = s.backup_tickets[j],
                    !.backup_tickets = SubSeq(@, j, Len(@)),
                    !.generation_lock = Release(@)],
                 p, AfterPromote(s, p))
       ELSE Goto([s1 EXCEPT !.backup_tickets = <<>>], p, "cooldown")

\* _promote_or_generate_primary, lines 167-176: pop backups from the front
\* until a healthy one is found
promote_backup(s, p) ==
  LET j == FirstHealthy(s.backup_tickets, 1)
      s1 == [s EXCEPT !.seen_backups[p] =
               IF s.op[p] = "mark_failed" THEN s.backup_tickets ELSE @]
  IN IF j > 0
       THEN Goto([s1 EXCEPT
                    !.primary_ticket = s.backup_tickets[j],
                    !.backup_tickets = SubSeq(@, j + 1, Len(@)),
                    !.generation_lock = Release(@)],
                 p, AfterPromote(s, p))
       ELSE Goto([s1 EXCEPT !.backup_tickets = <<>>], p, "cooldown")

\* _wait_for_generation_cooldown, lines 396-407, then on into
\* _generate_ticket, which first asks for a token (line 196)
wait_for_generation_cooldown(s, p) ==
  IF s.last_generation_time # NoTime
     /\ s.now - s.last_generation_time < GENERATION_COOLDOWN_SECONDS
    THEN Suspend([s EXCEPT !.wake[p] = s.now +
                   (GENERATION_COOLDOWN_SECONDS
                      - (s.now - s.last_generation_time))], p, "sleep")
    ELSE Goto(s, p, "get_valid_jwt")

\* _generate_ticket, lines 197-312: with the token, POST to the login
\* endpoint; the settings and the session context file are taken to be
\* consistent, so building the request does not fail
login_post(s, p) ==
  Suspend([s EXCEPT !.opLogins[p] = @ + 1], p, "login_post")

\* _generate_ticket, lines 357-394: a 2xx response with userLoginInfo
generate_ticket_ok(s, p) ==
  Goto([s EXCEPT !.last_generation_time = s.now,
                 !.ticket_data[p] = SessionTicket(s.next_ticket),
                 !.jwt_token[p] = NoJwt,
                 !.next_ticket = @ + 1], p, "generated")

\* _promote_or_generate_primary, lines 180-181
promote_generated(s, p) ==
  Goto([s EXCEPT
          !.primary_ticket = s.ticket_data[p],
          !.generation_lock = Release(@),
          !.shared = [q \in Tasks |->
             IF /\ s.op[p] = "get_session_ticket"
                /\ s.op[q] = "get_session_ticket"
                /\ s.pc[q] = "generation_wait"
               THEN s.ticket_data[p].ticket
               ELSE s.shared[q]]],
       p, AfterPromote(s, p))

\* mutant: the mint error is logged and the caller goes on
promote_raise_swallowed(s, p) ==
  Goto([s EXCEPT !.generation_lock = Release(@)], p, AfterPromote(s, p))

\* _promote_or_generate_primary, lines 182-183: RuntimeError leaves through
\* `async with` and through get_session_ticket or mark_failed
promote_raise(s, p) ==
  Return([s EXCEPT !.generation_lock = Release(@)], p, Raise)

\* create_session_ticket, lines 440-447; arg is 1 for promote_primary
create_session_ticket_store(s, p) ==
  LET t == s.ticket_data[p]
      appended == Append(s.backup_tickets, t)
      s1 == IF s.arg[p] = 1
              THEN [s EXCEPT !.primary_ticket = t]
              ELSE [s EXCEPT !.backup_tickets =
                      IF Len(appended) > s.max_backups
                        THEN LastSlice(appended, s.max_backups)
                        ELSE appended]
  IN Return([s1 EXCEPT !.generation_lock = Release(@)], p, OkTicket(t))

\* create_session_ticket, lines 436-438: the error leaves through `async with`
create_session_ticket_raise(s, p) ==
  Return([s EXCEPT !.generation_lock = Release(@)], p, Raise)

\* ----------------------------------------------------------- cancellation
\* the outcome of a call whose task was cancelled: CancelledError leaves it
Cancelled == [kind |-> "cancelled", val |-> 0, failed_count |-> 0,
              expires_at |-> NoTime]

\* mutant: only a queued task leaves the lock; its holder keeps it
Withdraw_waiter_only(lock, p) ==
  [lock EXCEPT !.waiters = SelectSeq(@, LAMBDA q : q # p)]

\* CancelledError raised in task p at its await: `async with lock` releases
\* the lock p holds, and asyncio.Lock.acquire takes p out of the queue it
\* waits in (a waiter the lock was already handed to passes it on)
Withdraw(lock, p) ==
  IF lock.locked = p
    THEN Release(lock)
    ELSE [lock EXCEPT !.waiters = SelectSeq(@, LAMBDA q : q # p)]

\* task.cancel() takes effect at the await task p is suspended in; no
\* handler of the session or token manager catches CancelledError, so it
\* leaves through every `async with` up to the caller
raise_cancelled(s, p) ==
  Return([s EXCEPT !.generation_lock = Withdraw(@, p),
                   !.refresh_lock = Withdraw(@, p)], p, Cancelled)

\* ------------------------------------------------------ running a task
\* the statement task p is at
Statement(s, p) ==
  LET at == s.pc[p]
      name == s.op[p]
  IN CASE at = "get_valid_jwt" -> get_valid_jwt_check(s, p)
       [] at = "refresh_jwt" -> refresh_jwt_lock(s, p)
       [] at = "refresh_locked" -> refresh_jwt_double_check(s, p)
       [] at = "jwt_return" -> jwt_return(s, p)
       [] at = "jwt_raise" -> jwt_raise(s, p)
       [] at = "get_session_ticket" -> get_session_ticket_check(s, p)
       [] at = "get_return" -> get_session_ticket_return(s, p)
       [] at = "mark_failed" -> mark_failed_primary(s, p)
       [] at = "mark_failed_backups" -> mark_failed_backups(s, p)
       [] at = "ensure_backups" -> ensure_backups_needed(s, p)
       [] at = "create_session_ticket" -> Goto(s, p, "generation_lock")
       [] at = "generation_lock" -> generation_lock_enter(s, p)
       [] at = "promote_locked" -> promote_backup(s, p)
       [] at = "cooldown" -> wait_for_generation_cooldown(s, p)
       [] at = "login" -> login_post(s, p)
       [] at = "generated" /\ name = "ensure_backups" ->
            ensure_backups_append(s, p)
       [] at = "generated" /\ name = "create_session_ticket" ->
            create_session_ticket_store(s, p)
       [] at = "generated" /\ InPromote(s, p) -> promote_generated(s, p)
       [] at = "generate_raise" /\ name = "ensure_backups" ->
            ensure_backups_break(s, p)
       [] at = "generate_raise" /\ name = "create_session_ticket" ->
            create_session_ticket_raise(s, p)
       [] at = "generate_raise" /\ InPromote(s, p) -> promote_raise(s, p)

\* task p runs until it is suspended or has returned
RECURSIVE Run(_, _)
Run(s0, p) ==
  CHOOSE r \in {IF s.running # p \/ s.pc[p] = "returned"
                  THEN s
                  ELSE Run(Statement(s, p), p) : s \in {s0}} : TRUE

Idle(p) == running = NoTask /\ pc[p] = "idle"
Suspended(p, label) == running = NoTask /\ pc[p] = label

\* --------------------------------------------------------------- Init
\* ------------------------------------------------- AuthPoolManager data
Threads == 1..NumThreads

\* one element of the JSON array in auth_pool.json or in a captures file
CaptureItem(n) ==
  [auth_code |-> n, auth_data |-> n, auth_type |-> 17039361,
   source_timestamp |-> n]

\* an element that lacks keys
BadItem == [auth_code |-> 0]

CaptureKeys == {"auth_code", "auth_data", "auth_type", "source_timestamp"}

\* item["auth_code"] ... item["source_timestamp"] raise no KeyError
WellFormed(data) ==
  \A i \in 1..Len(data) : CaptureKeys \subseteq DOMAIN data[i]

\* the dataclass, with its fields in declaration order
CapturedAuth(auth_code, auth_data, auth_type, source_timestamp) ==
  <<auth_code, auth_data, auth_type, source_timestamp>>

\* [CapturedAuth(auth_code=item["auth_code"], ...) for item in data]
Bundles(data) ==
  [i \in 1..Len(data) |->
     CapturedAuth(data[i].auth_code, data[i].auth_data, data[i].auth_type,
                  data[i].source_timestamp)]

\* the list _save_pool dumps
PoolItems(pl) ==
  [i \in 1..Len(pl) |->
     [auth_code |-> pl[i][1], auth_data |-> pl[i][2], auth_type |-> pl[i][3],
      source_timestamp |-> pl[i][4]]]

\* a file holding the JSON array `data`; a file left half written
JsonFile(data) == [json |-> TRUE, data |-> data]
TornFile == [json |-> FALSE, data |-> <<>>]

\* the files a capture can leave: up to MaxNew items, each well formed or not
CaptureFiles ==
  LET Items == {CaptureItem(n) : n \in 1..MaxBundles} \cup {BadItem}
  IN  UNION {[1..k -> Items] : k \in 0..MaxNew}

\* outcomes of an AuthPoolManager call
NoCall == [op |-> "none", kind |-> "none", auth |-> <<>>, data |-> <<>>,
           added |-> 0, exc |-> ""]
ReturnsAuth(a) == [NoCall EXCEPT !.op = "get_next_auth", !.kind = "return",
                                 !.auth = a]
ReturnsAdded(data, n) ==
  [NoCall EXCEPT !.op = "refresh_pool", !.kind = "return", !.data = data,
                 !.added = n]
Raises(o, e) == [NoCall EXCEPT !.op = o, !.kind = "raise", !.exc = e]

\* no AuthPoolManager was built
RotorOff ==
  /\ pool = <<>>
  /\ index = 0
  /\ pool_file = JsonFile(<<>>)
  /\ last_call = NoCall
  /\ served = <<>>
  /\ run = <<>>

\* no thread calls into the AuthPoolManager
ThreadsOff ==
  /\ t_pc = [t \in Threads |-> "idle"]
  /\ t_auth = [t \in Threads |-> 0]
  /\ t_index = [t \in Threads |-> 0]
  /\ index0 = 0

\* ------------------------------------------------ files written as JSON
Files == {"tokens", "context"}

\* JSON text is a sequence of pieces: a brace or one "key": value member
Piece(k, v) == [key |-> k, val |-> v]

\* version v of the object a writer dumps: asdict(self._token_data) for the
\* tokens file, session_context for the session-context file
ObjectOf(f, v) ==
  IF f = "tokens"
    THEN <<Piece("jwt_token", v), Piece("refresh_token", v),
           Piece("expires_at", v), Piece("issued_at", v)>>
    ELSE <<Piece("session_ticket", v), Piece("persona_id", 0)>>

\* json.dump(obj, f, indent=2): the whole text
dumps(obj) == <<Piece("{", 0)>> \o obj \o <<Piece("}", 0)>>

\* the longest text has this many pieces
MaxPieces == Len(dumps(ObjectOf("tokens", 0)))

\* no file is being written or read
FilesOff ==
  /\ disk = [f \in Files |-> dumps(ObjectOf(f, 0))]
  /\ w_pc = [f \in Files |-> "idle"]
  /\ w_ver = [f \in Files |-> 0]
  /\ r_seen = [f \in Files |-> dumps(ObjectOf(f, 0))]

\* ------------------------------------------- blaze_auth: bytes and integers
\* bytes are sequences of 0..255, str is a sequence of code points, and a
\* Python int is three 16-bit limbs, least significant first, in two's
\* complement (a 48-bit window of the unbounded int)
RECURSIVE BitXor(_, _)
BitXor(a, b) ==
  IF a = 0 THEN b
  ELSE IF b = 0 THEN a
  ELSE ((a + b) % 2) + 2 * BitXor(a \div 2, b \div 2)

RECURSIVE BitAnd(_, _)
BitAnd(a, b) ==
  IF a = 0 \/ b = 0 THEN 0
  ELSE ((a % 2) * (b % 2)) + (2 * BitAnd(a \div 2, b \div 2))

IntZero == <<0, 0, 0>>

\* a & b on Python ints
IntAnd(a, b) == [i \in 1..3 |-> BitAnd(a[i], b[i])]

\* a + 1
IntInc(a) ==
  LET s1 == a[1] + 1
      s2 == a[2] + (s1 \div 65536)
      s3 == a[3] + (s2 \div 65536)
  IN <<s1 % 65536, s2 % 65536, s3 % 65536>>

\* a // 10 and a % 10 of a non-negative int
DivMod10(a) ==
  LET t2 == ((a[3] % 10) * 65536) + a[2]
      t1 == ((t2 % 10) * 65536) + a[1]
  IN [q |-> <<t1 \div 10, t2 \div 10, a[3] \div 10>>, r |-> t1 % 10]

RECURSIVE Digits(_)
Digits(a) ==
  IF a = IntZero THEN <<>>
  ELSE Digits(DivMod10(a).q) \o <<48 + DivMod10(a).r>>

\* json.dumps of a non-negative int: its decimal digits
IntText(a) == IF a = IntZero THEN <<48>> ELSE Digits(a)

\* 10 * a + d
MulAdd10(a, d) ==
  LET s1 == (a[1] * 10) + d
      s2 == (a[2] * 10) + (s1 \div 65536)
      s3 == (a[3] * 10) + (s2 \div 65536)
  IN <<s1 % 65536, s2 % 65536, s3 % 65536>>

\* int(text) of decimal digits
RECURSIVE IntOf(_)
IntOf(text) ==
  IF text = <<>> THEN IntZero
  ELSE MulAdd10(IntOf(SubSeq(text, 1, Len(text) - 1)), text[Len(text)] - 48)

IsDigit(c) == c >= 48 /\ c <= 57

\* the longest prefix of text made of digits
RECURSIVE LeadingDigits(_)
LeadingDigits(text) ==
  IF text = <<>> \/ ~IsDigit(Head(text)) THEN <<>>
  ELSE <<Head(text)>> \o LeadingDigits(Tail(text))

\* the recursions over a text or a buffer split it in two halves
Left(q) == SubSeq(q, 1, Len(q) \div 2)
Right(q) == SubSeq(q, (Len(q) \div 2) + 1, Len(q))

\* json.dumps of a str with ensure_ascii=False: quote and backslash escaped
RECURSIVE JsonEscape(_)
JsonEscape(text) ==
  IF text = <<>> THEN <<>>
  ELSE IF Len(text) = 1
    THEN (IF text[1] \in {34, 92} THEN <<92, text[1]>> ELSE text)
  ELSE JsonEscape(Left(text)) \o JsonEscape(Right(text))

\* str.encode("utf-8") for code points below 2048
RECURSIVE encode(_)
encode(text) ==
  IF text = <<>> THEN <<>>
  ELSE IF Len(text) = 1
    THEN (IF text[1] < 128 THEN text
          ELSE <<192 + (text[1] \div 64), 128 + (text[1] % 64)>>)
  ELSE encode(Left(text)) \o encode(Right(text))

\* bytes.decode("utf-8"), errors are strict: the code points, or DecodeError
DecodeError == <<-1>>
IsContinuation(c) == c >= 128 /\ c < 192
\* a place to cut b that does not part a lead byte from its continuation
Cut(b) ==
  IF IsContinuation(b[(Len(b) \div 2) + 1]) /\ ~IsContinuation(b[Len(b) \div 2])
    THEN (Len(b) \div 2) + 1
    ELSE Len(b) \div 2

RECURSIVE decode(_)
decode(b) ==
  IF b = <<>> THEN <<>>
  ELSE IF Len(b) = 1
    THEN (IF b[1] < 128 THEN b ELSE DecodeError)
  ELSE IF Len(b) = 2 /\ b[1] >= 128
    THEN (IF b[1] >= 194 /\ b[1] < 224 /\ IsContinuation(b[2])
            THEN <<((b[1] - 192) * 64) + (b[2] - 128)>>
            ELSE DecodeError)
  ELSE LET front == decode(SubSeq(b, 1, Cut(b)))
           back == decode(SubSeq(b, Cut(b) + 1, Len(b)))
       IN IF front = DecodeError \/ back = DecodeError THEN DecodeError
          ELSE front \o back

\* base64 text is a sequence of alphabet positions 0..63, Pad for "="
Pad == 64

\* three bytes make four base64 characters
RECURSIVE b64encode(_)
b64encode(b) ==
  IF b = <<>> THEN <<>>
  ELSE IF Len(b) = 1
    THEN <<b[1] \div 4, (b[1] % 4) * 16, Pad, Pad>>
  ELSE IF Len(b) = 2
    THEN <<b[1] \div 4, ((b[1] % 4) * 16) + (b[2] \div 16), (b[2] % 16) * 4,
           Pad>>
  ELSE IF Len(b) = 3
    THEN <<b[1] \div 4, ((b[1] % 4) * 16) + (b[2] \div 16),
           ((b[2] % 16) * 4) + (b[3] \div 64), b[3] % 64>>
  ELSE LET k == 3 * ((Len(b) + 3) \div 6)
       IN b64encode(SubSeq(b, 1, k)) \o b64encode(SubSeq(b, k + 1, Len(b)))

\* four base64 characters make up to three bytes
RECURSIVE b64decode(_)
b64decode(t) ==
  IF Len(t) < 4 THEN <<>>
  ELSE IF Len(t) < 8
    THEN (IF t[3] = Pad THEN <<(t[1] * 4) + (t[2] \div 16)>>
          ELSE IF t[4] = Pad
            THEN <<(t[1] * 4) + (t[2] \div 16),
                   ((t[2] % 16) * 16) + (t[3] \div 4)>>
          ELSE <<(t[1] * 4) + (t[2] \div 16),
                 ((t[2] % 16) * 16) + (t[3] \div 4),
                 ((t[3] % 4) * 64) + t[4]>>)
  ELSE LET k == 4 * (Len(t) \div 8)
       IN b64decode(SubSeq(t, 1, k)) \o b64decode(SubSeq(t, k + 1, Len(t)))

\* bytes.hex(): two digits 0..15 per byte
hex(b) ==
  [k \in 1..(2 * Len(b)) |->
     IF k % 2 = 1 THEN b[(k + 1) \div 2] \div 16 ELSE b[k \div 2] % 16]

\* hashlib.md5(b).digest(): sixteen bytes that depend on every byte of b and
\* on its position; the digest function itself is the library's
RECURSIVE Mix(_, _, _, _)
Mix(b, lo, hi, i) ==
  IF lo > hi THEN 0
  ELSE IF lo = hi THEN ((b[lo] + 1) * (i + lo) * (lo + 1)) % 65521
  ELSE (Mix(b, lo, (lo + hi) \div 2, i)
        + Mix(b, ((lo + hi) \div 2) + 1, hi, i)) % 65521

md5(b) ==
  SubSeq([i \in 1..16 |-> (Mix(b, 1, Len(b), i) + (7 * i)) % 256], 1, 16)

\* bytes.fromhex("634203362017bf72f70ba900c0aa4e6b")
PROCESS_DATA_CONSTANT ==
  <<99, 66, 3, 54, 32, 23, 191, 114, 247, 11, 169, 0, 192, 170, 78, 107>>

\* bytes.fromhex("3a53413521464c3b6531326530705b70203a2900")
AUTH_CODE_SALT ==
  <<58, 83, 65, 53, 33, 70, 76, 59, 101, 49, 50, 101, 48, 112, 91, 112,
  32, 58, 41, 0>>

\* the bytes of {"staticData":"05e6a7ead5584ab4","requestId":
StaticDataText ==
  <<123, 34, 115, 116, 97, 116, 105, 99, 68, 97, 116, 97, 34, 58, 34, 48,
  53, 101, 54, 97, 55, 101, 97, 100, 53, 53, 56, 52, 97, 98, 52, 34, 44,
  34, 114, 101, 113, 117, 101, 115, 116, 73, 100, 34, 58>>

\* the bytes of ,"blazeId":
BlazeIdText ==
  <<44, 34, 98, 108, 97, 122, 101, 73, 100, 34, 58>>

\* the bytes of ,"additionalData":"
AdditionalDataText ==
  <<44, 34, 97, 100, 100, 105, 116, 105, 111, 110, 97, 108, 68, 97, 116,
  97, 34, 58, 34>>

\* 0xFFFFFFFF
MASK32 == <<65535, 65535, 0>>

\* an Optional argument: None, or a value
None == [none |-> TRUE, val |-> <<>>]
Some(v) == [none |-> FALSE, val |-> v]

\* truth value of an Optional[bytes] / Optional[str]: None and the empty
\* value are false
Truthy(o) == ~o.none /\ o.val # <<>>

\* hashlib.md5(nonce + PROCESS_DATA_CONSTANT).digest()
_derive_keystream(nonce) == md5(nonce \o PROCESS_DATA_CONSTANT)

\* the keystream XOR applied from byte 0 on
_process_data_whole(buffer) ==
  LET keystream == _derive_keystream(SubSeq(buffer, 1, 4))
  IN SubSeq([k \in 1..Len(buffer) |->
               BitXor(buffer[k], keystream[((k - 1) % Len(keystream)) + 1])],
            1, Len(buffer))

\* the first four bytes are the nonce and are copied; byte idx >= 4 is XORed
\* with keystream[(idx - 4) % len(keystream)]  (idx counts from 0 in the
\* code, k = idx + 1 from 1 here); callers pass at least four bytes
_process_data(buffer) ==
  LET keystream == _derive_keystream(SubSeq(buffer, 1, 4))
  IN SubSeq([k \in 1..Len(buffer) |->
               IF k <= 4 THEN buffer[k]
               ELSE BitXor(buffer[k],
                           keystream[((k - 1 - 4) % Len(keystream)) + 1])],
            1, Len(buffer))

\* the payload with request_id written as it is
_build_payload_unmasked(request_id, blaze_id, additional) ==
  encode(StaticDataText \o IntText(request_id)
         \o BlazeIdText \o IntText(blaze_id)
         \o (IF Truthy(additional)
               THEN AdditionalDataText \o JsonEscape(additional.val) \o <<34>>
               ELSE <<>>)
         \o <<125>>)

\* json.dumps({"staticData", "requestId": request_id & 0xFFFFFFFF, "blazeId"
\* [, "additionalData" if additional]}, separators=(",", ":")).encode("utf-8")
_build_payload(request_id, blaze_id, additional) ==
  encode(StaticDataText \o IntText(IntAnd(request_id, MASK32))
         \o BlazeIdText \o IntText(blaze_id)
         \o (IF Truthy(additional)
               THEN AdditionalDataText \o JsonEscape(additional.val) \o <<34>>
               ELSE <<>>)
         \o <<125>>)

\* hashlib.md5(AUTH_CODE_SALT + encrypted_blob).digest()
_compute_auth_code(encrypted_blob) == md5(AUTH_CODE_SALT \o encrypted_blob)

\* outcome of compute_message_auth / delta_refresh: an AuthBundle or an error
NoBundle == [kind |-> "none", auth_code |-> <<>>, auth_data |-> <<>>]
AuthBundle(code, data) ==
  [kind |-> "bundle", auth_code |-> code, auth_data |-> data]
BundleError(e) == [kind |-> e, auth_code |-> <<>>, auth_data |-> <<>>]

\* `nonce_override or secrets.token_bytes(4)`; token is what
\* secrets.token_bytes(4) returns
NonceUsed(nonce_override, token) ==
  IF Truthy(nonce_override) THEN nonce_override.val ELSE token

\* compute_message_auth from the nonce on (lines 132-148); delta_refresh
\* repeats the same statements (lines 169-185)
compute_message_auth(request_id, blaze_id, additional_data, nonce_override, token) ==
  LET nonce == NonceUsed(nonce_override, token)
      plaintext == nonce \o _build_payload(request_id, blaze_id,
                                           additional_data)
      encrypted == _process_data(plaintext)
  IN IF Len(nonce) # 4 THEN BundleError("ValueError")
     ELSE AuthBundle(b64encode(_compute_auth_code(encrypted)),
                     b64encode(encrypted))

\* outcome of decode_auth_data: (nonce hex, payload text) or an error
NoDecoded == [kind |-> "none", nonce_hex |-> <<>>, payload |-> <<>>]
DecodedError(e) == [kind |-> e, nonce_hex |-> <<>>, payload |-> <<>>]

decode_auth_data(auth_data_b64) ==
  LET raw == b64decode(auth_data_b64)
      processed == _process_data(raw)
      payload == SubSeq(processed, 5, Len(processed))
  IN IF Len(raw) < 5 THEN DecodedError("ValueError")
     ELSE IF decode(payload) = DecodeError THEN DecodedError("ValueError")
     ELSE [kind |-> "decoded", nonce_hex |-> hex(SubSeq(raw, 1, 4)),
           payload |-> decode(payload)]

\* the requestId member of a payload text
RequestIdOf(text) ==
  IntOf(LeadingDigits(SubSeq(text, Len(StaticDataText) + 1, Len(text))))

\* ----------------------------------------------------- blaze_auth inputs
Nonces == {<<0, 0, 0, 0>>, <<222, 173, 190, 239>>}
NonceOverrides ==
  {None, Some(<<>>), Some(<<1, 2, 3>>), Some(<<1, 2, 3, 4, 5>>)}
    \cup {Some(n) : n \in Nonces}
\* 0, 1, 2^31, 2^32 - 1, 2^32, 2^32 + 5, -1
RequestIds ==
  {IntZero, <<1, 0, 0>>, <<0, 32768, 0>>, <<65535, 65535, 0>>, <<0, 0, 1>>,
   <<5, 0, 1>>, <<65535, 65535, 65535>>}
\* 0, 2^32 - 1, 2^32 + 5
EdgeRequestIds == {IntZero, <<65535, 65535, 0>>, <<5, 0, 1>>}
\* 7 and 1000000007
BlazeIds == {<<7, 0, 0>>, <<51719, 15258, 0>>}
\* None, "", "a", and e-acute followed by a double quote
AdditionalData == {None, Some(<<>>), Some(<<97>>), Some(<<233, 34>>)}
\* buffers for _process_data: four bytes, five, and more than a keystream
Buffers ==
  {<<1, 2, 3, 4>>, <<1, 2, 3, 4, 5>>,
   <<9, 8, 7, 6>> \o [i \in 1..20 |-> (37 * i) % 256]}
\* random.getrandbits(32) values two and one below the wrap, and zero
InitialCounters == {IntZero, <<65534, 65535, 0>>, <<65535, 65535, 0>>}

NoAuthCall ==
  [op |-> "none", request_id |-> IntZero, blaze_id |-> IntZero,
   additional_data |-> None, nonce_override |-> None, token |-> <<>>,
   existing |-> NoBundle, out |-> NoBundle]

NoProcessed == [buffer |-> <<>>, once |-> <<>>, twice |-> <<>>]

\* no blaze_auth call has been made
CipherOff ==
  /\ auth_call = NoAuthCall
  /\ decoded = NoDecoded
  /\ xored = NoProcessed
  /\ request_counter = IntZero
  /\ request_ids = <<>>

\* ------------------------------------------------------ AuctionPipeline
StorageSinks == {"store_a", "store_b"}
PublishSinks == {"publisher"}
Sinks == StorageSinks \cup PublishSinks
NoSink == "none"
NoLimit == -1
\* max_batches: None, or a number of batches
BatchLimits == {NoLimit} \cup (0..MaxBatches)

\* run has not been called
PipelineOff ==
  /\ p_pc = "idle"
  /\ max_batches = NoLimit
  /\ batches = 0
  /\ yielded = <<>>
  /\ deliveries = [k \in Sinks |-> <<>>]
  /\ collector_stopped = FALSE

ExtraOff == FilesOff /\ CipherOff /\ PipelineOff

\* only access token 0 exists, and its exp claim is e
IssuedOnly(e) == [j \in 0..MaxJwts |-> IF j = 0 THEN e ELSE NoTime]

SessionInit ==
  /\ now = 0
  /\ running = NoTask
  /\ pc = [p \in Tasks |-> "idle"]
  /\ op = [p \in Tasks |-> "none"]
  /\ arg = [p \in Tasks |-> 0]
  /\ needed = [p \in Tasks |-> 0]
  /\ idx = [p \in Tasks |-> 0]
  /\ wake = [p \in Tasks |-> 0]
  /\ ticket_data = [p \in Tasks |-> NoTicket]
  /\ jwt_token = [p \in Tasks |-> NoJwt]
  /\ ret = [p \in Tasks |-> NoRet]
  /\ primary_ticket = NoTicket
  /\ backup_tickets = <<>>
  /\ last_generation_time = NoTime
  /\ max_backups \in 0..MAX_BACKUP_TICKETS
  /\ generation_lock = FreeLock
  /\ \E e \in InitialExpiries : token_data = TokenData(0, 0, e, 0)
  /\ storage_path = TRUE
  /\ token_file = asdict(token_data)
  /\ refresh_lock = FreeLock
  /\ next_ticket = 1
  /\ next_jwt = 1
  /\ jwt_exp = IssuedOnly(fromisoformat(token_data.expires_at))
  /\ opLogins = [p \in Tasks |-> 0]
  /\ opTokenCalls = [p \in Tasks |-> 0]
  /\ opTokenErr = [p \in Tasks |-> FALSE]
  /\ opWaited = [p \in Tasks |-> FALSE]
  /\ shared = [p \in Tasks |-> 0]
  /\ seen_backups = [p \in Tasks |-> <<>>]
  /\ failed_primaries = {}
  /\ evicted_backups = {}

Init == SessionInit /\ RotorOff /\ ThreadsOff /\ ExtraOff

\* ------------------------------------------------------------ actions
\* the orchestrator calls a public method of TokenManager
get_valid_jwt(p) ==
  Idle(p) /\ Install(Run(Enter(S, p, "get_valid_jwt", 0), p))

refresh_jwt(p) ==
  Idle(p) /\ Install(Run(Enter(S, p, "refresh_jwt", 0), p))

\* the orchestrator calls a public method of SessionManager
get_session_ticket(p) ==
  Idle(p) /\ Install(Run(Enter(S, p, "get_session_ticket", 0), p))

\* the caller reports a ticket it was given earlier, at most MaxFails times
\* for one primary
mark_failed(p, t) ==
  /\ Idle(p)
  /\ t < next_ticket
  /\ primary_ticket.ticket = t => primary_ticket.failed_count < MaxFails
  /\ Install(Run(Enter(S, p, "mark_failed", t), p))

ensure_backups(p) ==
  Idle(p) /\ Install(Run(Enter(S, p, "ensure_backups", 0), p))

create_session_ticket(p, promote) ==
  Idle(p) /\ Install(Run(Enter(S, p, "create_session_ticket", promote), p))

\* the task at the head of the refresh lock's queue has the lock and resumes
refresh_lock_acquired(p) ==
  /\ Suspended(p, "refresh_wait")
  /\ refresh_lock.locked = p
  /\ Install(Run(Resume(S, p, "refresh_locked"), p))

\* the token endpoint answers 2xx
token_response_ok(p, lifetime, with_refresh) ==
  /\ Suspended(p, "token_post")
  /\ next_jwt <= MaxJwts
  /\ Install(Run(refresh_jwt_store(Resume(S, p, "token_post"), p,
                                   lifetime, with_refresh), p))

\* the token request fails
token_response_error(p) ==
  /\ Suspended(p, "token_post")
  /\ Install(Run(refresh_jwt_raise(Resume(S, p, "token_post"), p), p))

\* the task at the head of the generation lock's queue has the lock
generation_lock_acquired(p) ==
  /\ Suspended(p, "generation_wait")
  /\ generation_lock.locked = p
  /\ Install(Run(Resume(S, p, AfterGenerationLock(S, p)), p))

\* asyncio.sleep(wait_time) is over (line 407)
sleep_done(p) ==
  /\ Suspended(p, "sleep")
  /\ now >= wake[p]
  /\ Install(Run(Resume([S EXCEPT !.wake[p] = 0], p, "get_valid_jwt"), p))

\* the login endpoint answers 2xx with userLoginInfo
login_response_ok(p) ==
  /\ Suspended(p, "login_post")
  /\ next_ticket <= MaxTickets
  /\ Install(Run(generate_ticket_ok(Resume(S, p, "login_post"), p), p))

\* _generate_ticket, lines 331-372: network error, non-2xx status, or a body
\* without userLoginInfo
login_response_error(p) ==
  /\ Suspended(p, "login_post")
  /\ Install(Run(Resume(S, p, "generate_raise"), p))

\* the caller has its result and goes on to other work
caller_continue(p) ==
  /\ running = p
  /\ pc[p] = "returned"
  /\ pc' = [pc EXCEPT ![p] = "idle"]
  /\ op' = [op EXCEPT ![p] = "none"]
  /\ arg' = [arg EXCEPT ![p] = 0]
  /\ ret' = [ret EXCEPT ![p] = NoRet]
  /\ opLogins' = [opLogins EXCEPT ![p] = 0]
  /\ opTokenCalls' = [opTokenCalls EXCEPT ![p] = 0]
  /\ opTokenErr' = [opTokenErr EXCEPT ![p] = FALSE]
  /\ opWaited' = [opWaited EXCEPT ![p] = FALSE]
  /\ shared' = [shared EXCEPT ![p] = 0]
  /\ seen_backups' = [seen_backups EXCEPT ![p] = <<>>]
  /\ running' = NoTask
  /\ UNCHANGED <<now, needed, idx, wake, ticket_data, jwt_token, poolVars,
                 generation_lock, tokenVars, refresh_lock, envVars,
                 failed_primaries, evicted_backups, rotorVars, threadVars, extraVars>>

\* the clock advances while no task runs
Tick ==
  /\ running = NoTask
  /\ now + TickSeconds <= MaxTime
  /\ now' = now + TickSeconds
  /\ UNCHANGED <<running, taskVars, poolVars, generation_lock, tokenVars,
                 refresh_lock, envVars, histVars, rotorVars, threadVars, extraVars>>

\* -------------------------------- SessionManager with its TokenManager
Next ==
  \/ Tick
  \/ \E p \in Tasks : get_session_ticket(p)
  \/ \E p \in Tasks, t \in 1..MaxTickets : mark_failed(p, t)
  \/ \E p \in Tasks : ensure_backups(p)
  \/ \E p \in Tasks, promote \in {0, 1} : create_session_ticket(p, promote)
  \/ \E p \in Tasks : generation_lock_acquired(p)
  \/ \E p \in Tasks : sleep_done(p)
  \/ \E p \in Tasks : refresh_lock_acquired(p)
  \/ \E p \in Tasks : token_response_ok(p, LongLifetime, TRUE)
  \/ \E p \in Tasks : token_response_error(p)
  \/ \E p \in Tasks : login_response_ok(p)
  \/ \E p \in Tasks : login_response_error(p)
  \/ \E p \in Tasks : caller_continue(p)

Spec == Init /\ [][Next]_vars

\* ------------------------------------- mints that are cancelled or fail
\* the awaits of a SessionManager call: the lock queues, the cooldown
\* sleep, the token request and the login request
Awaits == {"generation_wait", "sleep", "refresh_wait", "token_post",
           "login_post"}

\* the caller's task is cancelled while task p is suspended in a call
cancel(p) ==
  /\ running = NoTask
  /\ pc[p] \in Awaits
  /\ Install(raise_cancelled([S EXCEPT !.running = p], p))

\* the clock advances while no task runs; it does not stop while a task
\* sleeps
TickOrWake ==
  /\ running = NoTask
  /\ \/ now + TickSeconds <= MaxTime
     \/ \E p \in Tasks : pc[p] = "sleep" /\ wake[p] > now
  /\ now' = now + TickSeconds
  /\ UNCHANGED <<running, taskVars, poolVars, generation_lock, tokenVars,
                 refresh_lock, envVars, histVars, rotorVars, threadVars,
                 extraVars>>

\* the token endpoint answers, one way or the other
token_response(p) ==
  token_response_ok(p, LongLifetime, TRUE) \/ token_response_error(p)

\* the login endpoint answers, one way or the other
login_response(p) == login_response_ok(p) \/ login_response_error(p)

MintInit == Init /\ max_backups = MAX_BACKUP_TICKETS

MintNext ==
  \/ TickOrWake
  \/ \E p \in Tasks : get_session_ticket(p)
  \/ \E p \in Tasks, promote \in {0, 1} : create_session_ticket(p, promote)
  \/ \E p \in Tasks : generation_lock_acquired(p)
  \/ \E p \in Tasks : sleep_done(p)
  \/ \E p \in Tasks : token_response_ok(p, LongLifetime, TRUE)
  \/ \E p \in Tasks : token_response_error(p)
  \/ \E p \in Tasks : login_response_ok(p)
  \/ \E p \in Tasks : login_response_error(p)
  \/ \E p \in Tasks : caller_continue(p)
  \/ \E p \in Tasks : cancel(p)

\* task p goes on from the await it is suspended in, or from its return
proceed(p) ==
  \/ generation_lock_acquired(p)
  \/ sleep_done(p)
  \/ token_response(p)
  \/ login_response(p)
  \/ caller_continue(p)

\* the event loop runs every task that is ready again and again (a lock
\* handed over, a sleep that is over, a request that is answered or has
\* timed out, a caller that has its result), and time passes
MintFairness ==
  /\ SF_vars(TickOrWake)
  /\ \A p \in Tasks : SF_vars(proceed(p))

MintSpec == MintInit /\ [][MintNext]_vars /\ MintFairness

\* ------------------------------------------- TokenManager on its own
TokenInit ==
  /\ now = 0
  /\ running = NoTask
  /\ pc = [p \in Tasks |-> "idle"]
  /\ op = [p \in Tasks |-> "none"]
  /\ arg = [p \in Tasks |-> 0]
  /\ needed = [p \in Tasks |-> 0]
  /\ idx = [p \in Tasks |-> 0]
  /\ wake = [p \in Tasks |-> 0]
  /\ ticket_data = [p \in Tasks |-> NoTicket]
  /\ jwt_token = [p \in Tasks |-> NoJwt]
  /\ ret = [p \in Tasks |-> NoRet]
  /\ primary_ticket = NoTicket
  /\ backup_tickets = <<>>
  /\ last_generation_time = NoTime
  /\ max_backups = MAX_BACKUP_TICKETS
  /\ generation_lock = FreeLock
  /\ \E e \in InitialExpiries \cup {ShortLifetime} :
       token_data = TokenData(0, 0, e, 0)
  /\ storage_path \in BOOLEAN
  /\ token_file = IF storage_path THEN asdict(token_data) ELSE NoFile
  /\ refresh_lock = FreeLock
  /\ next_ticket = 1
  /\ next_jwt = 1
  /\ jwt_exp = IssuedOnly(fromisoformat(token_data.expires_at))
  /\ opLogins = [p \in Tasks |-> 0]
  /\ opTokenCalls = [p \in Tasks |-> 0]
  /\ opTokenErr = [p \in Tasks |-> FALSE]
  /\ opWaited = [p \in Tasks |-> FALSE]
  /\ shared = [p \in Tasks |-> 0]
  /\ seen_backups = [p \in Tasks |-> <<>>]
  /\ failed_primaries = {}
  /\ evicted_backups = {}
  /\ RotorOff
  /\ ThreadsOff
  /\ ExtraOff

\* the process starts again and builds its TokenManager from the token file
load_token_file ==
  /\ running = NoTask
  /\ \A p \in Tasks : pc[p] = "idle"
  /\ storage_path
  /\ refresh_lock = FreeLock
  /\ token_data' = from_file(token_file, now)
  /\ UNCHANGED <<now, running, taskVars, poolVars, generation_lock,
                 token_file, storage_path, refresh_lock, envVars, histVars,
                 rotorVars, threadVars, extraVars>>

TokenNext ==
  \/ Tick
  \/ load_token_file
  \/ \E p \in Tasks : get_valid_jwt(p)
  \/ \E p \in Tasks : refresh_jwt(p)
  \/ \E p \in Tasks : refresh_lock_acquired(p)
  \/ \E p \in Tasks, l \in TokenLifetimes, r \in BOOLEAN :
       token_response_ok(p, l, r)
  \/ \E p \in Tasks : token_response_error(p)
  \/ \E p \in Tasks : caller_continue(p)

TokenSpec == TokenInit /\ [][TokenNext]_vars

\* ------------------------ TokenManager built from a file or a login
\* TokenManager.from_login_response at time t: the record it builds
from_login_response(jwt, refresh, expires_in, t) ==
  TokenData(jwt, refresh, t + expires_in, t)

\* the raw token-endpoint answer as a tokens file, with or without expires_in
RawOAuthFiles ==
  {[access_token |-> 0, refresh_token |-> 0, expires_in |-> LongLifetime],
   [access_token |-> 0, refresh_token |-> 0],
   [access_token |-> 0]}

\* the manager is built from a tokens file that holds access token 0, whose
\* exp claim is e, or from the answer to a login made now
LoadInit ==
  /\ now = 0
  /\ running = NoTask
  /\ pc = [p \in Tasks |-> "idle"]
  /\ op = [p \in Tasks |-> "none"]
  /\ arg = [p \in Tasks |-> 0]
  /\ needed = [p \in Tasks |-> 0]
  /\ idx = [p \in Tasks |-> 0]
  /\ wake = [p \in Tasks |-> 0]
  /\ ticket_data = [p \in Tasks |-> NoTicket]
  /\ jwt_token = [p \in Tasks |-> NoJwt]
  /\ ret = [p \in Tasks |-> NoRet]
  /\ primary_ticket = NoTicket
  /\ backup_tickets = <<>>
  /\ last_generation_time = NoTime
  /\ max_backups = MAX_BACKUP_TICKETS
  /\ generation_lock = FreeLock
  /\ \E e \in InitialExpiries \cup {ShortLifetime} :
       /\ jwt_exp = IssuedOnly(e)
       /\ \/ /\ token_file \in RawOAuthFiles \cup {asdict(TokenData(0, 0, e, 0))}
             /\ token_data = from_file(token_file, now)
             /\ storage_path = TRUE
          \/ /\ token_data = from_login_response(0, 0, e, now)
             /\ storage_path \in BOOLEAN
             /\ token_file = IF storage_path THEN asdict(token_data) ELSE NoFile
  /\ refresh_lock = FreeLock
  /\ next_ticket = 1
  /\ next_jwt = 1
  /\ opLogins = [p \in Tasks |-> 0]
  /\ opTokenCalls = [p \in Tasks |-> 0]
  /\ opTokenErr = [p \in Tasks |-> FALSE]
  /\ opWaited = [p \in Tasks |-> FALSE]
  /\ shared = [p \in Tasks |-> 0]
  /\ seen_backups = [p \in Tasks |-> <<>>]
  /\ failed_primaries = {}
  /\ evicted_backups = {}
  /\ RotorOff
  /\ ThreadsOff
  /\ ExtraOff

LoadSpec == LoadInit /\ [][TokenNext]_vars

\* ------------------- both managers with every public method called
AuthInit ==
  /\ Init
  /\ max_backups = MAX_BACKUP_TICKETS
  /\ is_expired(token_data, now)

AuthNext == Next \/ TokenNext

AuthSpec == AuthInit /\ [][AuthNext]_vars

\* ------------------------------------------------------ AuthPoolManager
\* mutant: the index stops at the last entry
next_index_no_wrap(i, n) == IF i + 1 < n THEN i + 1 ELSE i

\* line 86: (self._index + 1) % len(self._pool)
next_index(i, n) == (i + 1) % n

\* mutant: no check for an empty pool, self._pool[0] raises
pool_checked_by_subscript(pl) ==
  IF pl = <<>> THEN Raises("get_next_auth", "IndexError") ELSE NoCall

\* lines 82-83: NoCall when the pool has entries
pool_checked(pl) ==
  IF pl = <<>>
    THEN Raises("get_next_auth", "RuntimeError: Auth pool is empty")
    ELSE NoCall

\* mutant: the new bundles go in front
extend_front(pl, new_bundles) == new_bundles \o pl

\* line 124: self._pool.extend(new_bundles)
extend(pl, new_bundles) == pl \o new_bundles

\* mutant: only the last bundle is written
save_pool_last(pl) ==
  JsonFile(PoolItems(IF pl = <<>> THEN pl ELSE <<pl[Len(pl)]>>))

\* _save_pool: the whole pool, rewritten
save_pool(pl) == JsonFile(PoolItems(pl))

\* AuthPoolManager(pool_path) on a pool file of n bundles
load_pool(n) ==
  /\ pool_file = JsonFile([i \in 1..n |-> CaptureItem(i)])
  /\ pool = Bundles(pool_file.data)
  /\ index = 0
  /\ last_call = NoCall
  /\ served = <<>>
  /\ run = <<>>

\* a coroutine calls get_next_auth: no await, so the call is one step
get_next_auth ==
  /\ Len(served) < MaxCalls
  /\ IF pool_checked(pool) # NoCall
       THEN /\ last_call' = pool_checked(pool)
            /\ UNCHANGED <<pool, index, pool_file, served, run>>
       ELSE /\ last_call' = ReturnsAuth(pool[index + 1])
            /\ index' = next_index(index, Len(pool))
            /\ served' = Append(served, index + 1)
            /\ run' = Append(run, index + 1)
            /\ UNCHANGED <<pool, pool_file>>
  /\ UNCHANGED <<sessionVars, threadVars, extraVars>>

\* refresh_pool(path) on a captures file holding `data`
refresh_pool(data) ==
  /\ Len(pool) + Len(data) <= MaxPool
  /\ IF ~WellFormed(data)
       THEN /\ last_call' = Raises("refresh_pool", "KeyError")
            /\ UNCHANGED <<pool, index, pool_file, served, run>>
       ELSE /\ pool' = extend(pool, Bundles(data))
            /\ pool_file' = save_pool(pool')
            /\ last_call' = ReturnsAdded(data, Len(pool') - Len(pool))
            /\ run' = IF data = <<>> THEN run ELSE <<>>
            /\ UNCHANGED <<index, served>>
  /\ UNCHANGED <<sessionVars, threadVars, extraVars>>

\* refresh_pool(path) when open(path) fails
refresh_pool_missing ==
  /\ last_call' = Raises("refresh_pool", "FileNotFoundError")
  /\ UNCHANGED <<pool, index, pool_file, served, run>>
  /\ UNCHANGED <<sessionVars, threadVars, extraVars>>

\* refresh_pool(path) when _save_pool fails: open(..., "w") raises and the
\* file stays, or json.dump raises part way and the file is torn
refresh_pool_save_error(data, torn) ==
  /\ Len(pool) + Len(data) <= MaxPool
  /\ WellFormed(data)
  /\ pool' = extend(pool, Bundles(data))
  /\ pool_file' = IF torn THEN TornFile ELSE pool_file
  /\ last_call' = Raises("refresh_pool", "OSError")
  /\ run' = IF data = <<>> THEN run ELSE <<>>
  /\ UNCHANGED <<index, served>>
  /\ UNCHANGED <<sessionVars, threadVars, extraVars>>

PoolInit ==
  /\ SessionInit
  /\ max_backups = MAX_BACKUP_TICKETS
  /\ ~is_expired(token_data, now)
  /\ \E n \in 0..MaxInitial : load_pool(n)
  /\ ThreadsOff
  /\ ExtraOff

PoolNext ==
  \/ get_next_auth
  \/ \E data \in CaptureFiles : refresh_pool(data)
  \/ refresh_pool_missing
  \/ \E data \in CaptureFiles, torn \in BOOLEAN :
       refresh_pool_save_error(data, torn)

PoolSpec == PoolInit /\ [][PoolNext]_vars

\* --------------------------- get_next_auth called from several threads
\* The interpreter can switch threads between any two bytecodes, so a call
\* is four steps: the emptiness test, the subscript, the load of
\* self._index and the store of the new index.

\* lines 82-83
thread_check(t) ==
  /\ t_pc[t] = "idle"
  /\ t_pc' = [t_pc EXCEPT ![t] = IF pool_checked(pool) # NoCall
                                   THEN "raised" ELSE "read"]
  /\ UNCHANGED <<t_auth, t_index, index0, sessionVars, rotorVars, extraVars>>

\* line 85: auth = self._pool[self._index]
thread_read(t) ==
  /\ t_pc[t] = "read"
  /\ t_auth' = [t_auth EXCEPT ![t] = index + 1]
  /\ t_pc' = [t_pc EXCEPT ![t] = "load"]
  /\ UNCHANGED <<t_index, index0, sessionVars, rotorVars, extraVars>>

\* line 86, right-hand side: self._index is loaded
thread_load(t) ==
  /\ t_pc[t] = "load"
  /\ t_index' = [t_index EXCEPT ![t] = index]
  /\ t_pc' = [t_pc EXCEPT ![t] = "store"]
  /\ UNCHANGED <<t_auth, index0, sessionVars, rotorVars, extraVars>>

\* line 86, assignment, and the return of line 94
thread_store(t) ==
  /\ t_pc[t] = "store"
  /\ index' = next_index(t_index[t], Len(pool))
  /\ t_pc' = [t_pc EXCEPT ![t] = "returned"]
  /\ UNCHANGED <<t_auth, t_index, index0, sessionVars, extraVars, pool,
                 pool_file,
                 last_call, served, run>>

\* every thread's call is over; the threads are free to call again
threads_join ==
  /\ \A t \in Threads : t_pc[t] \in {"returned", "raised"}
  /\ t_pc' = [t \in Threads |-> "idle"]
  /\ t_auth' = [t \in Threads |-> 0]
  /\ t_index' = [t \in Threads |-> 0]
  /\ index0' = index
  /\ UNCHANGED <<sessionVars, rotorVars, extraVars>>

ThreadInit == PoolInit

ThreadNext ==
  \/ \E t \in Threads : thread_check(t)
  \/ \E t \in Threads : thread_read(t)
  \/ \E t \in Threads : thread_load(t)
  \/ \E t \in Threads : thread_store(t)
  \/ threads_join

ThreadSpec == ThreadInit /\ [][ThreadNext]_vars

\* -------------------------- a file rewritten while another party reads it
\* the session objects exist and no task is inside them
SessionIdle ==
  /\ SessionInit
  /\ max_backups = MAX_BACKUP_TICKETS
  /\ ~is_expired(token_data, now)

\* `with open(path, "w") as f`: the file is truncated
write_open(f) ==
  /\ w_pc[f] = "idle"
  /\ w_ver[f] < MaxVersions
  /\ w_pc' = [w_pc EXCEPT ![f] = "open"]
  /\ w_ver' = [w_ver EXCEPT ![f] = @ + 1]
  /\ disk' = [disk EXCEPT ![f] = <<>>]
  /\ UNCHANGED <<r_seen, sessionVars, rotorVars, threadVars>>
  /\ UNCHANGED <<cipherVars, pipeVars>>

\* json.dump writes piece by piece; the buffer may reach the file up to
\* piece k before the file is closed
write_flush(f, k) ==
  /\ w_pc[f] = "open"
  /\ Len(disk[f]) < k
  /\ k < Len(dumps(ObjectOf(f, w_ver[f])))
  /\ disk' = [disk EXCEPT ![f] = SubSeq(dumps(ObjectOf(f, w_ver[f])), 1, k)]
  /\ UNCHANGED <<w_pc, w_ver, r_seen, sessionVars, rotorVars, threadVars>>
  /\ UNCHANGED <<cipherVars, pipeVars>>

\* the `with` block ends: the rest is flushed and the file closed
write_close(f) ==
  /\ w_pc[f] = "open"
  /\ disk' = [disk EXCEPT ![f] = dumps(ObjectOf(f, w_ver[f]))]
  /\ w_pc' = [w_pc EXCEPT ![f] = "idle"]
  /\ UNCHANGED <<w_ver, r_seen, sessionVars, rotorVars, threadVars>>
  /\ UNCHANGED <<cipherVars, pipeVars>>

\* another thread or process opens the file and reads all of it
read_file(f) ==
  /\ r_seen' = [r_seen EXCEPT ![f] = disk[f]]
  /\ UNCHANGED <<disk, w_pc, w_ver, sessionVars, rotorVars, threadVars>>
  /\ UNCHANGED <<cipherVars, pipeVars>>

FileInit ==
  SessionIdle /\ RotorOff /\ ThreadsOff /\ FilesOff /\ CipherOff
    /\ PipelineOff

FileNext ==
  \/ \E f \in Files : write_open(f)
  \/ \E f \in Files, k \in 1..MaxPieces : write_flush(f, k)
  \/ \E f \in Files : write_close(f)
  \/ \E f \in Files : read_file(f)

FileSpec == FileInit /\ [][FileNext]_vars

\* ------------------------------------------ blaze_auth called with a bundle
\* the arguments a caller is about to pass
AuthArgs(r, b, a, n) ==
  [op |-> "none", request_id |-> r, blaze_id |-> b, additional_data |-> a,
   nonce_override |-> n, token |-> <<>>, existing |-> NoBundle,
   out |-> NoBundle]

\* what secrets.token_bytes(4) returned, if it was called
TokenDrawn(nonce_override, token) ==
  IF Truthy(nonce_override) THEN <<>> ELSE token

\* compute_message_auth(b"", device_id, request_id, blaze_id, additional_data,
\* nonce_override)
compute_message_auth_call(token) ==
  /\ auth_call.op = "none"
  /\ auth_call.blaze_id # IntZero
  /\ auth_call' =
       [auth_call EXCEPT
          !.op = "compute_message_auth",
          !.token = TokenDrawn(auth_call.nonce_override, token),
          !.out = compute_message_auth(auth_call.request_id,
                    auth_call.blaze_id, auth_call.additional_data,
                    auth_call.nonce_override, token)]
  /\ decoded' = NoDecoded
  /\ UNCHANGED <<xored, request_counter, request_ids>>
  /\ UNCHANGED <<sessionVars, rotorVars, threadVars, fileVars, pipeVars>>

\* delta_refresh(existing_bundle, ...) with the arguments of the call that
\* made existing_bundle
delta_refresh_call(token) ==
  /\ auth_call.op = "compute_message_auth"
  /\ auth_call.out.kind = "bundle"
  /\ auth_call' =
       [auth_call EXCEPT
          !.op = "delta_refresh",
          !.token = TokenDrawn(auth_call.nonce_override, token),
          !.existing = auth_call.out,
          !.out = compute_message_auth(auth_call.request_id,
                    auth_call.blaze_id, auth_call.additional_data,
                    auth_call.nonce_override, token)]
  /\ decoded' = NoDecoded
  /\ UNCHANGED <<xored, request_counter, request_ids>>
  /\ UNCHANGED <<sessionVars, rotorVars, threadVars, fileVars, pipeVars>>

\* decode_auth_data(bundle.auth_data) of the bundle made last
decode_auth_data_call ==
  /\ auth_call.out.kind = "bundle"
  /\ decoded = NoDecoded
  /\ decoded' = decode_auth_data(auth_call.out.auth_data)
  /\ UNCHANGED <<auth_call, xored, request_counter, request_ids>>
  /\ UNCHANGED <<sessionVars, rotorVars, threadVars, fileVars, pipeVars>>

\* _process_data(_process_data(buffer))
process_data_twice ==
  /\ xored.buffer # <<>>
  /\ xored.once = <<>>
  /\ xored' =
       [xored EXCEPT
          !.once = _process_data(xored.buffer),
          !.twice = _process_data(_process_data(xored.buffer))]
  /\ UNCHANGED <<auth_call, decoded, request_counter, request_ids>>
  /\ UNCHANGED <<sessionVars, rotorVars, threadVars, fileVars, pipeVars>>

CipherInit ==
  /\ SessionIdle /\ RotorOff /\ ThreadsOff /\ FilesOff /\ PipelineOff
  /\ \E r \in EdgeRequestIds, b \in BlazeIds, a \in AdditionalData,
        n \in NonceOverrides : auth_call = AuthArgs(r, b, a, n)
  /\ decoded = NoDecoded
  /\ \E buffer \in Buffers : xored = [NoProcessed EXCEPT !.buffer = buffer]
  /\ request_counter = IntZero
  /\ request_ids = <<>>

CipherNext ==
  \/ \E token \in Nonces : compute_message_auth_call(token)
  \/ \E token \in Nonces : delta_refresh_call(token)
  \/ decode_auth_data_call
  \/ process_data_twice

CipherSpec == CipherInit /\ [][CipherNext]_vars

\* ------------------------------------- the collector's request counter
\* AuctionCollector._generate_auth_bundle(context): context carries the
\* persona id; the requestId its bundle carries is read back from auth_data
_generate_auth_bundle(persona_id, token) ==
  LET request_id == IntAnd(request_counter, MASK32)
      bundle == compute_message_auth(request_id, persona_id, None, None,
                                     token)
  IN /\ Len(request_ids) < MaxGenerated
     /\ request_counter' = IntInc(request_counter)
     /\ auth_call' =
          [AuthArgs(request_id, persona_id, None, None) EXCEPT
             !.op = "_generate_auth_bundle", !.token = token,
             !.out = bundle]
     /\ request_ids' =
          Append(request_ids,
                 RequestIdOf(decode_auth_data(bundle.auth_data).payload))
     /\ decoded' = NoDecoded
     /\ UNCHANGED xored
     /\ UNCHANGED <<sessionVars, rotorVars, threadVars, fileVars, pipeVars>>

\* the collector is constructed: its counter is random.getrandbits(32); a
\* caller of compute_message_auth holds a request id of its own
CollectorInit ==
  /\ SessionIdle /\ RotorOff /\ ThreadsOff /\ FilesOff /\ PipelineOff
  /\ \E r \in RequestIds, b \in BlazeIds :
        auth_call = AuthArgs(r, b, None, None)
  /\ decoded = NoDecoded
  /\ xored = NoProcessed
  /\ request_counter \in InitialCounters
  /\ request_ids = <<>>

CollectorNext ==
  \/ \E b \in BlazeIds, token \in Nonces : _generate_auth_bundle(b, token)
  \/ \E token \in Nonces : compute_message_auth_call(token)
  \/ decode_auth_data_call

CollectorSpec == CollectorInit /\ [][CollectorNext]_vars

\* --------------------------------------------------- AuctionPipeline.run
\* _persist(records) of payload number n: one persist per storage sink and
\* one publish per publish sink, gathered.  With no sink raising, all of
\* them receive the list; when `failed` raises, gather raises at once and
\* only the sinks in `completed` have received it by then.
_persist(n, failed, completed) ==
  [k \in Sinks |->
     IF (failed = NoSink \/ k \in completed) /\ k # failed
       THEN Append(deliveries[k], n)
       ELSE deliveries[k]]

\* process_payload(payload) of payload number n that has `good` records the
\* normalizer accepts: nothing is persisted when there is none
process_payload(n, good, failed, completed) ==
  IF good = 0 THEN deliveries ELSE _persist(n, failed, completed)

\* what the sinks of a payload with `good` records do
SinkRaises(good, failed) == good > 0 /\ failed # NoSink

\* run(max_batches=limit) up to the first iteration: _running, batches = 0,
\* the collector's lifecycle is entered
run_enter(limit) ==
  /\ p_pc = "idle"
  /\ p_pc' = "streaming"
  /\ max_batches' = limit
  /\ batches' = 0
  /\ UNCHANGED <<yielded, deliveries, collector_stopped>>
  /\ UNCHANGED <<sessionVars, rotorVars, threadVars, fileVars, cipherVars>>

\* entering the lifecycle raises (no request template, no tokens file);
\* the finally clause stops the collector
run_lifecycle_error(limit) ==
  /\ p_pc = "idle"
  /\ p_pc' = "failed"
  /\ max_batches' = limit
  /\ batches' = 0
  /\ collector_stopped' = TRUE
  /\ UNCHANGED <<yielded, deliveries>>
  /\ UNCHANGED <<sessionVars, rotorVars, threadVars, fileVars, cipherVars>>

\* one turn of `async for payload in self.collector.stream()`: the stream
\* yields a payload, process_payload runs, batches is counted and compared
\* with max_batches; an exception of a sink leaves through `finally`
run_iteration(good, failed, completed) ==
  /\ completed = (IF SinkRaises(good, failed) THEN completed \ {failed}
                                            ELSE Sinks)
  /\ failed # NoSink => good > 0
  /\ p_pc = "streaming"
  /\ ~collector_stopped
  /\ Len(yielded) < MaxPayloads
  /\ yielded' = Append(yielded, good)
  /\ deliveries' = process_payload(Len(yielded) + 1, good, failed, completed)
  /\ IF SinkRaises(good, failed)
       THEN /\ p_pc' = "failed"
            /\ collector_stopped' = TRUE
            /\ UNCHANGED batches
       ELSE /\ batches' = batches + 1
            /\ IF max_batches # NoLimit /\ batches' >= max_batches
                 THEN p_pc' = "done" /\ collector_stopped' = TRUE
                 ELSE UNCHANGED <<p_pc, collector_stopped>>
  /\ UNCHANGED max_batches
  /\ UNCHANGED <<sessionVars, rotorVars, threadVars, fileVars, cipherVars>>

\* someone calls collector.stop() while the pipeline runs
collector_stop ==
  /\ p_pc = "streaming"
  /\ ~collector_stopped
  /\ collector_stopped' = TRUE
  /\ UNCHANGED <<p_pc, max_batches, batches, yielded, deliveries>>
  /\ UNCHANGED <<sessionVars, rotorVars, threadVars, fileVars, cipherVars>>

\* the stream finds _stopped set and ends; run leaves its loop
run_stream_ends ==
  /\ p_pc = "streaming"
  /\ collector_stopped
  /\ p_pc' = "ended"
  /\ UNCHANGED <<max_batches, batches, yielded, deliveries, collector_stopped>>
  /\ UNCHANGED <<sessionVars, rotorVars, threadVars, fileVars, cipherVars>>

PipelineInit ==
  SessionIdle /\ RotorOff /\ ThreadsOff /\ FilesOff /\ CipherOff
    /\ PipelineOff

PipelineNext ==
  \/ \E limit \in BatchLimits : run_enter(limit)
  \/ \E limit \in BatchLimits : run_lifecycle_error(limit)
  \/ \E good \in 0..MaxRecords, failed \in Sinks \cup {NoSink},
        completed \in SUBSET Sinks : run_iteration(good, failed, completed)
  \/ collector_stop
  \/ run_stream_ends

PipelineSpec == PipelineInit /\ [][PipelineNext]_vars

\* ============================================================== claims
Returned(p, name) == pc[p] = "returned" /\ op[p] = name

LoginsInFlight == {p \in Tasks : pc[p] = "login_post"}

\* C1: get_session_ticket never returns a ticket whose failure counter is 3
\* or more: every call returns a ticket with fewer than 3 failures or raises.
C1_HealthyTicketReturned ==
  \A p \in Tasks :
    Returned(p, "get_session_ticket") =>
      \/ ret[p].kind = "raise"
      \/ /\ ret[p].kind = "ok"
         /\ ret[p].val # 0
         /\ ret[p].failed_count < 3

\* a call returns a ticket that has already failed, after an earlier primary
\* was worn out
C1_Witness ==
  \E p \in Tasks :
    /\ Returned(p, "get_session_ticket")
    /\ ret[p].kind = "ok"
    /\ ret[p].failed_count = 2
    /\ failed_primaries # {}

\* C2: at most one login-endpoint call is in flight at any time.
C2_OneMintInFlight == Cardinality(LoginsInFlight) <= 1

\* C3: get_session_ticket callers that waited for the generation lock while
\* another get_session_ticket minted the primary share that mint: they make
\* no login call of their own and return the same ticket.
C3_SharedMintAttempt ==
  \A q \in Tasks :
    (Returned(q, "get_session_ticket") /\ ret[q].kind = "ok" /\ shared[q] # 0)
      => (ret[q].val = shared[q] /\ opLogins[q] = 0)

\* C4: no login call starts less than the cooldown after the previous
\* successful mint.
C4_CooldownRespected ==
  [][\A p \in Tasks :
       (pc[p] # "login_post" /\ pc'[p] = "login_post") =>
         \/ last_generation_time = NoTime
         \/ now - last_generation_time >= 10]_vars

TokenCallsInFlight == {p \in Tasks : pc[p] = "token_post"}

TokenCall(p) == Returned(p, "get_valid_jwt") \/ Returned(p, "refresh_jwt")

\* C5 as stated: a caller that waited on the refresh lock makes no
\* token-endpoint request, so one request serves all concurrent callers.
C5_WaiterMakesNoRequest ==
  \A p \in Tasks : opWaited[p] => opTokenCalls[p] = 0

\* C5: never two token-endpoint requests in flight at once, and a caller that
\* waited on the refresh lock and finds the cached token outside the safety
\* margin when it gets the lock returns that token without a request and
\* without changing it.
C5_SingleFlightRefresh ==
  [][/\ Cardinality(TokenCallsInFlight') <= 1
     /\ \A p \in Tasks :
          (/\ pc[p] = "refresh_wait"
           /\ pc'[p] # "refresh_wait"
           /\ now < fromisoformat(token_data.expires_at) - 300)
            => /\ pc'[p] = "returned"
               /\ ret'[p].kind = "ok"
               /\ ret'[p].val = token_data.jwt_token
               /\ opTokenCalls'[p] = 0
               /\ token_data' = token_data]_vars

\* a caller that waited returns the token another caller's request fetched
C5_Witness ==
  \E p \in Tasks :
    /\ Returned(p, "get_valid_jwt")
    /\ opWaited[p]
    /\ opTokenCalls[p] = 0
    /\ ret[p].kind = "ok"
    /\ ret[p].val # 0
    /\ ret[p].val = token_data.jwt_token

\* C6: get_valid_jwt returns a token whose expiry is within 300 s of the
\* current time only after a token-endpoint request made in that call, and a
\* call whose request failed raises.
C6_NoStaleTokenWithoutRefresh ==
  \A p \in Tasks :
    Returned(p, "get_valid_jwt") =>
      /\ (ret[p].kind = "ok" /\ now >= ret[p].expires_at - 300)
           => opTokenCalls[p] >= 1
      /\ opTokenErr[p] => ret[p].kind = "raise"

\* the endpoint answered with a token that is already within the margin
C6_Witness ==
  \E p \in Tasks :
    /\ Returned(p, "get_valid_jwt")
    /\ ret[p].kind = "ok"
    /\ opTokenCalls[p] = 1
    /\ now >= ret[p].expires_at - 300

\* C7: a failed token-endpoint request leaves the TokenData and the token
\* file as they were, raises to the caller, and leaves the refresh lock free
\* or with the next waiting task.
C7_FailedRefreshChangesNothing ==
  [][\A p \in Tasks :
       (pc[p] = "token_post" /\ opTokenErr'[p])
         => /\ token_data' = token_data
            /\ token_file' = token_file
            /\ pc'[p] = "returned"
            /\ ret'[p].kind = "raise"
            /\ refresh_lock'.locked # p
            /\ \A i \in 1..Len(refresh_lock'.waiters) :
                 refresh_lock'.waiters[i] # p
            /\ \/ refresh_lock' = FreeLock
               \/ /\ refresh_lock.waiters # <<>>
                  /\ refresh_lock'.locked = Head(refresh_lock.waiters)]_vars

\* the request failed while another caller was waiting, which now has the lock
C7_Witness ==
  \E p \in Tasks, q \in Tasks :
    /\ TokenCall(p)
    /\ opTokenErr[p]
    /\ ret[p].kind = "raise"
    /\ storage_path
    /\ token_file = token_data
    /\ pc[q] = "refresh_wait"
    /\ refresh_lock.locked = q

\* C8: the backup set never holds more than max_backups tickets.
C8_BackupsWithinCapacity == Len(backup_tickets) <= max_backups

\* C9: once mark_failed has been applied 3 times to a primary, no later
\* get_session_ticket returns that ticket.
C9_FailedPrimaryNotReturned ==
  \A p \in Tasks :
    (Returned(p, "get_session_ticket") /\ ret[p].kind = "ok")
      => ret[p].val \notin failed_primaries

\* the worn-out primary was replaced by a freshly minted ticket
C9_Witness ==
  \E p \in Tasks :
    /\ Returned(p, "get_session_ticket")
    /\ ret[p].kind = "ok"
    /\ opLogins[p] = 1
    /\ failed_primaries # {}
    /\ primary_ticket.ticket \notin failed_primaries

\* C10: when the mark_failed that makes the primary unhealthy finds 2 healthy
\* backups, the primary becomes the one added first, the backup set is left
\* holding exactly the other one, and the call sends no login request.
C10_PromotesOldestBackup ==
  \A p \in Tasks :
    (/\ Returned(p, "mark_failed")
     /\ Len(seen_backups[p]) = 2
     /\ \A i \in 1..2 : seen_backups[p][i].failed_count < 3)
      => /\ primary_ticket = seen_backups[p][1]
         /\ backup_tickets = <<seen_backups[p][2]>>
         /\ opLogins[p] = 0
         /\ ret[p].kind = "done"

\* the third failure of a primary that had two backups behind it
C10_Witness ==
  \E p \in Tasks :
    /\ Returned(p, "mark_failed")
    /\ Len(seen_backups[p]) = 2
    /\ arg[p] \in failed_primaries
    /\ seen_backups[p][1].ticket < seen_backups[p][2].ticket

\* C11: mark_failed on a ticket that is a backup and not the primary leaves
\* the primary and every other backup as they were, adds 1 to that backup's
\* counter and removes it when the counter reaches 3, without a login
\* request; a removed backup is never the primary afterwards and is never
\* returned by get_session_ticket.
C11_BackupFailureEvicts ==
  [][/\ \A p \in Tasks :
          LET j == FirstMatch(backup_tickets, arg'[p], 1) IN
            (/\ pc[p] = "idle"
             /\ op'[p] = "mark_failed"
             /\ j # 0
             /\ primary_ticket.ticket # arg'[p])
              => /\ pc'[p] = "returned"
                 /\ ret'[p].kind = "done"
                 /\ opLogins'[p] = 0
                 /\ primary_ticket' = primary_ticket
                 /\ backup_tickets' =
                      IF backup_tickets[j].failed_count + 1 >= 3
                        THEN RemoveAt(backup_tickets, j)
                        ELSE [backup_tickets EXCEPT ![j].failed_count = @ + 1]
     /\ primary_ticket'.ticket \notin evicted_backups'
     /\ \A p \in Tasks :
          (pc'[p] = "returned" /\ op'[p] = "get_session_ticket"
             /\ ret'[p].kind = "ok")
            => ret'[p].val \notin evicted_backups']_vars

\* a backup has been removed and a later get_session_ticket returned a ticket
C11_Witness ==
  \E p \in Tasks :
    /\ evicted_backups # {}
    /\ Returned(p, "get_session_ticket")
    /\ ret[p].kind = "ok"
    /\ Len(backup_tickets) > 0

\* C12: a login request carries the token that get_valid_jwt returned in the
\* same _generate_ticket call; and when the token request of a mint fails, the
\* mint sends no login request, primary, backups and _last_generation_time
\* stay as they were, and the error ends the call (ensure_backups returns,
\* the other methods raise).
C12_MintUsesFreshToken ==
  [][\A p \in Tasks :
       /\ opLogins'[p] > opLogins[p]
            => /\ pc'[p] = "login_post"
               /\ jwt_token'[p] # NoJwt
               /\ jwt_token'[p] = token_data'.jwt_token
       /\ (/\ pc[p] = "token_post"
           /\ opTokenErr'[p]
           /\ op[p] \notin {"get_valid_jwt", "refresh_jwt"})
            => /\ opLogins'[p] = opLogins[p]
               /\ primary_ticket' = primary_ticket
               /\ backup_tickets' = backup_tickets
               /\ last_generation_time' = last_generation_time
               /\ pc'[p] = "returned"
               /\ ret'[p].kind =
                    IF op[p] = "ensure_backups" THEN "done" ELSE "raise"]_vars

\* a get_session_ticket whose token refresh failed raised without a login
C12_Witness ==
  \E p \in Tasks :
    /\ Returned(p, "get_session_ticket")
    /\ opTokenErr[p]
    /\ opLogins[p] = 0
    /\ ret[p].kind = "raise"

\* the step in which task p's mint attempt fails: its login request is
\* answered without a ticket, or its token request fails
MintFails(p) ==
  \/ pc[p] = "login_post" /\ pc'[p] # "login_post" /\ next_ticket' = next_ticket
  \/ pc[p] = "token_post" /\ opTokenErr'[p]

NoUsableTicket ==
  /\ primary_ticket = NoTicket \/ primary_ticket.failed_count >= 3
  /\ \A i \in 1..Len(backup_tickets) : backup_tickets[i].failed_count >= 3

C14_EnsureBackupsStopsOnFailure ==
  [][\A p \in Tasks :
       /\ (op[p] = "ensure_backups" /\ MintFails(p))
            => /\ pc'[p] = "returned"
               /\ ret'[p].kind = "done"
               /\ opLogins'[p] = opLogins[p]
               /\ backup_tickets' = backup_tickets
       /\ (/\ pc[p] = "idle"
           /\ op'[p] = "ensure_backups"
           /\ Len(backup_tickets) >= max_backups)
            => /\ pc'[p] = "returned"
               /\ ret'[p].kind = "done"
               /\ opLogins'[p] = 0
               /\ backup_tickets' = backup_tickets]_vars

\* the call minted one backup, its second login failed, and the backup stays
C14_Witness ==
  \E p \in Tasks :
    /\ Returned(p, "ensure_backups")
    /\ ret[p].kind = "done"
    /\ opLogins[p] = 2
    /\ next_ticket = 2
    /\ backup_tickets = <<SessionTicket(1)>>

RetryFreeCalls ==
  {"get_valid_jwt", "refresh_jwt", "get_session_ticket", "create_session_ticket"}

\* C15: a call of get_valid_jwt, refresh_jwt, get_session_ticket or
\* create_session_ticket sends at most one token request, the last two send
\* at most one login request, and a failed request ends the call with an
\* exception.
C15_NoSilentRetry ==
  [][\A p \in Tasks :
       /\ op'[p] \in RetryFreeCalls => opTokenCalls'[p] <= 1
       /\ op'[p] \in {"get_session_ticket", "create_session_ticket"}
            => opLogins'[p] <= 1
       /\ (op[p] \in RetryFreeCalls /\ MintFails(p))
            => /\ pc'[p] = "returned"
               /\ ret'[p].kind = "raise"]_vars

\* a create_session_ticket whose one login request failed raised
C15_Witness ==
  \E p \in Tasks :
    /\ Returned(p, "create_session_ticket")
    /\ opLogins[p] = 1
    /\ opTokenCalls[p] = 1
    /\ ~opTokenErr[p]
    /\ ret[p].kind = "raise"

\* the step is a get_next_auth call that returned an entry
ReturnedAuth == served' # served

Visited(seq) == {seq[i] : i \in 1..Len(seq)}

\* the entry returned is the one at the index, and the index moves on by
\* one, back to 0 after the last entry
RoundRobinStep ==
  /\ last_call'.auth = pool[index + 1]
  /\ served'[Len(served')] = index + 1
  /\ index' = IF index + 1 = Len(pool) THEN 0 ELSE index + 1

\* among the calls since the pool last grew, any Len(pool) consecutive ones
\* returned different positions, each the successor of the one before
DistinctWithinCycle(seq, n) ==
  /\ \A i, j \in 1..Len(seq) : (i < j /\ j - i < n) => seq[i] # seq[j]
  /\ \A i \in 1..Len(seq) - 1 : seq[i + 1] = (seq[i] % n) + 1

\* C16 as stated: get_next_auth goes round the pool in insertion order, N
\* calls in a row on a pool of N return each entry once, and across calls of
\* refresh_pool no entry is returned again while an entry of the pool has
\* not been returned yet.
C16_EveryEntryBeforeRepeat ==
  [][ReturnedAuth =>
       /\ RoundRobinStep
       /\ DistinctWithinCycle(run', Len(pool))
       /\ (index + 1 \in Visited(served)
             => 1..Len(pool) \subseteq Visited(served))]_vars

\* C16 amended: get_next_auth goes round the pool in insertion order and,
\* between two growths of the pool, N calls in a row on a pool of N return
\* each entry once.
C16_RoundRobinBetweenRefreshes ==
  [][ReturnedAuth =>
       /\ RoundRobinStep
       /\ DistinctWithinCycle(run', Len(pool))]_vars

\* a pool grown from two to three entries after one call, then a full round
C16_Witness ==
  /\ Len(pool) = 3
  /\ served = <<1, 2, 3, 1>>
  /\ run = <<2, 3, 1>>
  /\ index = 1

\* C17: when NumThreads calls of get_next_auth that ran side by side on a
\* pool of at least NumThreads entries are over, they returned different
\* entries and the index has moved on by NumThreads modulo the pool size.
C17_ConcurrentCallsDistinct ==
  ((\A t \in Threads : t_pc[t] = "returned") /\ Len(pool) >= NumThreads)
    => /\ \A t, u \in Threads : t # u => t_auth[t] # t_auth[u]
       /\ index = (index0 + NumThreads) % Len(pool)

\* the step is a refresh_pool call that returned
RefreshReturned ==
  /\ last_call'.op = "refresh_pool"
  /\ last_call'.kind = "return"
  /\ <<pool', pool_file', last_call'>> # <<pool, pool_file, last_call>>

\* C18: refresh_pool keeps the existing entries in place, puts the new ones
\* after them, leaves the rotation index alone, returns how many it added,
\* and leaves in the pool file exactly the pool in memory, in order.
C18_RefreshAppendsAndPersists ==
  [][RefreshReturned =>
       /\ SubSeq(pool', 1, Len(pool)) = pool
       /\ Len(pool') = Len(pool) + Len(last_call'.data)
       /\ \A i \in 1..Len(last_call'.data) :
            pool'[Len(pool) + i] =
              <<last_call'.data[i].auth_code, last_call'.data[i].auth_data,
                last_call'.data[i].auth_type,
                last_call'.data[i].source_timestamp>>
       /\ last_call'.added = Len(last_call'.data)
       /\ index' = index
       /\ pool_file'.json
       /\ Len(pool_file'.data) = Len(pool')
       /\ \A i \in 1..Len(pool') :
            /\ pool_file'.data[i].auth_code = pool'[i][1]
            /\ pool_file'.data[i].auth_data = pool'[i][2]
            /\ pool_file'.data[i].auth_type = pool'[i][3]
            /\ pool_file'.data[i].source_timestamp = pool'[i][4]
       /\ Bundles(pool_file'.data) = pool']_vars

\* two bundles were appended to a pool of two while the index stood at 1
C18_Witness ==
  /\ last_call.op = "refresh_pool"
  /\ last_call.added = 2
  /\ Len(pool) = 4
  /\ index = 1
  /\ served = <<1>>
  /\ pool_file = JsonFile(PoolItems(pool))

\* C19: get_next_auth on an empty pool raises RuntimeError "Auth pool is
\* empty", returns no entry and leaves the pool and the index as they were.
C19_EmptyPoolRaises ==
  [][(pool = <<>> /\ last_call'.op = "get_next_auth")
       => /\ last_call' = Raises("get_next_auth",
                                 "RuntimeError: Auth pool is empty")
          /\ pool' = pool
          /\ index' = index
          /\ served' = served]_vars

\* the call was made on a pool that was loaded empty
C19_Witness ==
  /\ pool = <<>>
  /\ last_call.op = "get_next_auth"
  /\ last_call.kind = "raise"
  /\ index = 0

\* the step in which task p's token request is answered with a new token
RefreshSucceeds(p) ==
  /\ pc[p] = "token_post"
  /\ pc'[p] # "token_post"
  /\ ~opTokenErr'[p]

\* C20: a refresh that succeeds makes every field of the token record anew
\* from the response (the access token, its expiry claim, the refresh token
\* the response carries or else the one in use, the time of the refresh), and
\* where a storage path is set the token file then holds that record, so
\* that from_file gives back a record equal to the one in memory.
C20_RefreshReplacesAndPersists ==
  [][\A p \in Tasks :
       RefreshSucceeds(p)
         => /\ token_data'.jwt_token = next_jwt
            /\ token_data'.refresh_token \in {next_jwt, token_data.refresh_token}
            /\ \E l \in TokenLifetimes :
                 fromisoformat(token_data'.expires_at) = now + l
            /\ fromisoformat(token_data'.issued_at) = now
            /\ pc'[p] = "returned"
            /\ ret'[p] = OkJwt(token_data')
            /\ storage_path
                 => /\ from_file(token_file', now') = token_data'
                    /\ \A t \in 0..MaxTime :
                         from_file(token_file', t) = token_data'
            /\ ~storage_path => token_file' = token_file]_vars

\* a refresh whose response carried no refresh token and a short-lived
\* access token was stored and written
C20_Witness ==
  \E p \in Tasks :
    /\ Returned(p, "refresh_jwt")
    /\ opTokenCalls[p] = 1
    /\ ~opTokenErr[p]
    /\ storage_path
    /\ token_data = TokenData(1, 0, now + ShortLifetime, now)
    /\ from_file(token_file, now) = token_data

\* C21: the expiry of the token record is always the exp claim that its own
\* access token carries, however the record was made.
C21_ExpiryIsTokensClaim ==
  fromisoformat(token_data.expires_at) = jwt_exp[token_data.jwt_token]

\* every version a writer of file f has finished or begun
Versions(f) == {dumps(ObjectOf(f, v)) : v \in 0..w_ver[f]}

\* C22: what a reader finds in the tokens file or the session-context file
\* is always the whole text of one version, the previous or the new one.
C22_ReaderSeesWholeFile ==
  \A f \in Files : r_seen[f] \in Versions(f)

\* the nonce a call used: the supplied one, else what token_bytes returned
NonceOf(call) == NonceUsed(call.nonce_override, call.token)

\* the payload bytes a call encrypted
PayloadOf(call) ==
  _build_payload(call.request_id, call.blaze_id, call.additional_data)

\* C23: round-trip law.  Whenever decode_auth_data has been applied to the
\* auth_data of a bundle that compute_message_auth or delta_refresh made,
\* it returned the hex of the nonce the call used and the text whose UTF-8
\* bytes are exactly the JSON payload the call encrypted; and the keystream
\* XOR applied twice to a buffer of at least 4 bytes gives the buffer back,
\* the first 4 bytes being the same after one application as before.
C23_RoundTrip ==
  /\ decoded # NoDecoded =>
       /\ decoded.kind = "decoded"
       /\ decoded.nonce_hex = hex(NonceOf(auth_call))
       /\ encode(decoded.payload) = PayloadOf(auth_call)
  /\ xored.once # <<>> =>
       /\ xored.twice = xored.buffer
       /\ SubSeq(xored.once, 1, 4) = SubSeq(xored.buffer, 1, 4)

\* a bundle whose payload holds additionalData with a non-ASCII character
\* and an escaped quote was decoded, and a buffer longer than the keystream
\* was passed through the XOR twice and was changed by the first pass
C23_Witness ==
  /\ decoded.kind = "decoded"
  /\ auth_call.additional_data = Some(<<233, 34>>)
  /\ auth_call.request_id = <<65535, 65535, 0>>
  /\ Len(xored.buffer) > 4 + Len(PROCESS_DATA_CONSTANT)
  /\ xored.once # <<>>
  /\ xored.once # xored.buffer

\* a caller of compute_message_auth or delta_refresh passed nonce_override
NonceSupplied ==
  /\ auth_call.op \in {"compute_message_auth", "delta_refresh"}
  /\ ~auth_call.nonce_override.none

\* C24: a call that was given a nonce_override of a length other than 4,
\* the empty one included, raised ValueError and made no bundle; a call that
\* was given one of length 4 made a bundle that carries that very nonce; no
\* call that was given a nonce drew a random one, and a second call with the
\* same arguments made the same auth_code and auth_data.
C24_SuppliedNonceCheckedNotReplaced ==
  NonceSupplied =>
    /\ Len(auth_call.nonce_override.val) # 4 =>
         auth_call.out.kind = "ValueError"
    /\ Len(auth_call.nonce_override.val) = 4 =>
         /\ auth_call.out.kind = "bundle"
         /\ SubSeq(b64decode(auth_call.out.auth_data), 1, 4)
              = auth_call.nonce_override.val
    /\ auth_call.token = <<>>
    /\ auth_call.op = "delta_refresh" => auth_call.out = auth_call.existing

\* r mod 2^32 of a Python int r: its two low limbs
Low32(r) == <<r[1], r[2], 0>>

\* x + 1 modulo 2^32, for x in 0..2^32-1
Succ32(x) == IF x = <<65535, 65535, 0>> THEN IntZero ELSE IntInc(x)

\* the requestId a server reads in a bundle
EmbeddedId(bundle) == RequestIdOf(decode_auth_data(bundle.auth_data).payload)

LastOf(q) == q[Len(q)]

\* C25: every bundle made for a request id r carries r mod 2^32 as its
\* requestId, whatever integer r is; the requestId of a bundle the collector
\* generates is its request counter mod 2^32, and it is the requestId of the
\* bundle the collector generated before plus 1 modulo 2^32, so 0 follows
\* 2^32 - 1.
C25_RequestIdMasked ==
  [][/\ (auth_call' # auth_call /\ auth_call'.out.kind = "bundle") =>
          EmbeddedId(auth_call'.out) = Low32(auth_call'.request_id)
     /\ request_ids' # request_ids =>
          /\ LastOf(request_ids') = Low32(request_counter)
          /\ request_ids # <<>> =>
               LastOf(request_ids') = Succ32(LastOf(request_ids))]_vars

\* the collector generated bundles with requestIds 2^32 - 2, 2^32 - 1 and 0:
\* its counter passed 2^32 and stands at 2^32 + 1
C25_Witness ==
  /\ request_ids = <<<<65534, 65535, 0>>, <<65535, 65535, 0>>, IntZero>>
  /\ request_counter = <<1, 0, 1>>
  /\ auth_call.op = "_generate_auth_bundle"
  /\ auth_call.out.kind = "bundle"

\* run has returned or raised
RunExited == p_pc \in {"done", "ended", "failed"}

\* how many times sink k received the records of payload n
TimesDelivered(k, n) ==
  Cardinality({j \in 1..Len(deliveries[k]) : deliveries[k][j] = n})

\* C26: run(max_batches=n) never passes more than n payloads to
\* process_payload, and has passed exactly n when it leaves its loop by the
\* limit; every payload it has processed that holds a normalized record
\* reached every storage sink and every publish sink exactly once; and once
\* run has exited, by return or by exception, the collector is stopped.
C26_RunProcessesFirstN ==
  /\ max_batches # NoLimit => Len(yielded) <= max_batches
  /\ (p_pc = "done" /\ max_batches # NoLimit) => Len(yielded) = max_batches
  /\ \A n \in 1..batches, k \in Sinks :
       yielded[n] > 0 => TimesDelivered(k, n) = 1
  /\ RunExited => collector_stopped

\* task p, inside get_session_ticket or mark_failed, takes this step
PromoterSteps(p) ==
  /\ pc'[p] # pc[p]
  /\ op'[p] \in {"get_session_ticket", "mark_failed"}

\* the primary is present and healthy and this step does not mark it unhealthy
PrimaryStaysHealthy ==
  /\ primary_ticket # NoTicket
  /\ is_healthy(primary_ticket)
  /\ primary_ticket.ticket \notin failed_primaries'

\* C27: a healthy primary is never displaced by promotion.  No step of a
\* get_session_ticket or mark_failed caller replaces a primary that is
\* present and healthy: a caller that waited for the generation lock while
\* another caller promoted a backup or minted a ticket neither consumes a
\* second backup nor mints a second ticket over the new primary.
C27_HealthyPrimaryKept ==
  [][\A p \in Tasks :
       (PromoterSteps(p) /\ PrimaryStaysHealthy) =>
         primary_ticket'.ticket = primary_ticket.ticket]_vars

\* C28: in every state every ticket of the backup list is healthy, and the
\* primary's ticket is not in the backup list.
C28_BackupsHealthyAndDisjoint ==
  /\ \A i \in 1..Len(backup_tickets) : is_healthy(backup_tickets[i])
  /\ primary_ticket # NoTicket =>
       primary_ticket.ticket \notin TicketsOf(backup_tickets)

\* a backup was promoted to primary while another backup, which has failed
\* before, is still in the list
C28_Witness ==
  /\ primary_ticket # NoTicket
  /\ \E p \in Tasks : Returned(p, "mark_failed") /\ seen_backups[p] # <<>>
  /\ \E i \in 1..Len(backup_tickets) : backup_tickets[i].failed_count > 0

\* the ticket strings the pool holds
PoolTickets ==
  TicketsOf(backup_tickets)
    \cup (IF primary_ticket = NoTicket THEN {} ELSE {primary_ticket.ticket})

\* task p calls mark_failed in this step with a ticket the pool does not hold
MarkFailedUnknown(p) ==
  /\ pc[p] = "idle"
  /\ pc'[p] # "idle"
  /\ op'[p] = "mark_failed"
  /\ arg'[p] \notin PoolTickets

\* C29: mark_failed with a ticket string that is neither the primary's nor a
\* backup's returns at once and changes nothing: primary, backups, their
\* failure counters and the time of the last mint are as before, the
\* generation lock is not taken and no login or token request is made.
C29_UnknownTicketIgnored ==
  [][\A p \in Tasks :
       MarkFailedUnknown(p) =>
         /\ pc'[p] = "returned"
         /\ ret'[p] = Done
         /\ UNCHANGED <<poolVars, generation_lock, tokenVars, envVars>>
         /\ opLogins'[p] = 0
         /\ opTokenCalls'[p] = 0
         /\ UNCHANGED <<failed_primaries, evicted_backups>>]_vars

\* a primary that was replaced after it had failed was reported once more,
\* while another primary and a backup were in the pool
C29_Witness ==
  \E p \in Tasks :
    /\ Returned(p, "mark_failed")
    /\ arg[p] \in failed_primaries
    /\ arg[p] \notin PoolTickets
    /\ opLogins[p] = 0
    /\ seen_backups[p] = <<>>
    /\ primary_ticket # NoTicket
    /\ backup_tickets # <<>>

\* task p holds the generation lock or queues for it
InGenerationLock(p) ==
  \/ generation_lock.locked = p
  \/ \E i \in 1..Len(generation_lock.waiters) : generation_lock.waiters[i] = p

\* task p's call ends in this step, by an exception or by cancellation,
\* while p holds the generation lock
MintAttemptFails(p) ==
  /\ generation_lock.locked = p
  /\ pc[p] \in Awaits
  /\ pc'[p] = "returned"
  /\ ret'[p].kind \in {"raise", "cancelled"}

\* task p queues for the generation lock
QueuedForMint(p) == pc[p] = "generation_wait" /\ generation_lock.locked # p

====
